---- MODULE Spec2Model ----
(***************************************************************************)
(* hereiam: local semantic document search (Electron main process,         *)
(* renderer and the SQLite / FAISS persistence of src/main/fileSystem.js). *)
(*                                                                         *)
(* Texts are sequences of one-character strings.  A JS object is a record; *)
(* a JS array is a sequence (JS index i is TLA+ index i+1).                *)
(***************************************************************************)
EXTENDS Integers, Sequences, FiniteSets, TLC

VARIABLES
    env,                \* process environment: NODE_ENV and app.isPackaged
    indexedChunks,      \* hereiam-main.js: let indexedChunks = []
    indexDataFile,      \* userData/index-data.json: <<>> when absent, else <<chunks>>
    lastIndexedFolder,  \* global.lastIndexedFolder of the running process
    windowStateFile,    \* userData/window-state.json: <<>> when absent, else <<state>>
    documents,          \* SQLite table documents, in rowid order
    chunksTable,        \* SQLite table chunks, in rowid order
    chunkAutoInc,       \* AUTOINCREMENT counter of chunks.id
    faissExists,        \* fs.existsSync(faiss_index.bin)
    faissIndex,         \* rows of the persisted IndexFlatIP
    lastBuilt,          \* history: the chunk list of the last index build, <<>> if none
    scan,               \* the running 'scan-directory' handler, or its last verdict
    ui,                 \* renderer state (React useState cells of App)
    lastSearch,         \* history: the last search request and what it did
    hist,               \* history: the scans requested and completed so far
    requests,           \* ConcSpec: the IPC requests in flight, by slot
    tempFiles,          \* ConcSpec: which temporary files of searchChunks exist
    api                 \* StoreSpec only: the last direct call of a store function

storeVars == <<documents, chunksTable, chunkAutoInc>>
indexVars == <<faissExists, faissIndex, lastBuilt>>
mainVars  == <<indexedChunks, indexDataFile, lastIndexedFolder, windowStateFile>>
vars == <<env, indexedChunks, indexDataFile, lastIndexedFolder, windowStateFile,
          documents, chunksTable, chunkAutoInc, faissExists, faissIndex, lastBuilt,
          scan, ui, lastSearch, hist, requests, tempFiles, api>>
concVars == <<requests, tempFiles>>

Null == "null"

----------------------------------------------------------------------------
(* Generic sequence helpers                                                *)

Range(s) == {s[i] : i \in 1..Len(s)}

Min(a, b) == IF a < b THEN a ELSE b

\* Array.prototype.indexOf: 0-based position of the first occurrence, or -1
IndexOf(s, x) ==
    IF \E i \in 1..Len(s) : s[i] = x
    THEN (CHOOSE i \in 1..Len(s) : s[i] = x /\ \A j \in 1..(i-1) : s[j] # x) - 1
    ELSE -1

\* Array.prototype.slice(a, b) with 0 <= a <= b
Slice(s, a, b) == SubSeq(s, a + 1, Min(b, Len(s)))

\* all sequences over S of length 0..n
SeqsUpTo(S, n) == {<<>>} \cup UNION {[1..k -> S] : k \in 1..n}

RECURSIVE SumSeq(_)
SumSeq(s) == IF s = <<>> THEN 0 ELSE Head(s) + SumSeq(Tail(s))

\* Array.prototype.sort is stable (V8): an element is inserted after every
\* element whose key is less than or equal to its own.  Elements are <<key, x>>.
RECURSIVE InsertByKey(_, _)
InsertByKey(sorted, kx) ==
    IF sorted = <<>> THEN <<kx>>
    ELSE IF Head(sorted)[1] <= kx[1]
         THEN <<Head(sorted)>> \o InsertByKey(Tail(sorted), kx)
         ELSE <<kx>> \o sorted

RECURSIVE StableSortKeyed(_)
StableSortKeyed(s) ==
    IF s = <<>> THEN <<>>
    ELSE InsertByKey(StableSortKeyed(SubSeq(s, 1, Len(s) - 1)), s[Len(s)])

----------------------------------------------------------------------------
(* Embedding Provider: the python sentence-transformers child process.     *)
(* A model is a fixed function from text to a unit vector; the two models  *)
(* the code can select are stood in for by two hash functions onto the     *)
(* four axis unit vectors of the plane, so inner products are -1, 0 or 1.  *)

CharCode(c) ==
    CASE c = "a" -> 0
      [] c = "b" -> 1
      [] c = "c" -> 2
      [] c = "d" -> 3
      [] OTHER   -> 0

Axes == << <<1, 0>>, <<0, 1>>, <<-1, 0>>, <<0, -1>> >>

InnerProduct(u, v) == u[1] * v[1] + u[2] * v[2]

\* model.encode(texts)[i] followed by the division by the L2 norm
encode(text, modelName) ==
    LET h == SumSeq([i \in 1..Len(text) |-> CharCode(text[i])])
    IN  IF modelName = "all-MiniLM-L6-v2"
        THEN Axes[(h % 4) + 1]
        ELSE Axes[((h + Len(text)) % 4) + 1]

\* const embeddingModel = isDev ? 'paraphrase-MiniLM-L3-v2' : modelName
embeddingModel(e) ==
    IF e.NODE_ENV = "development" THEN "paraphrase-MiniLM-L3-v2" ELSE "all-MiniLM-L6-v2"

\* generateEmbeddings on what the child process leaves: its exit code and
\* temp_chunks.json.embeddings (<<>> when there is no such file, <<vectors>>
\* otherwise).  The embedding of a chunk is <<embeddings[i]>>, or <<>> when
\* embeddings[i] is undefined
generateEmbeddingsOn(chunks, code, embeddingsFile) ==
    IF code # 0 THEN [ok |-> FALSE, error |-> "Python process exited with code 1",
                      chunks |-> <<>>]
    ELSE IF embeddingsFile = <<>> THEN [ok |-> FALSE, error |-> "ENOENT", chunks |-> <<>>]
    ELSE [ok     |-> TRUE,
          error  |-> Null,
          chunks |-> [i \in 1..Len(chunks) |->
                        [text        |-> chunks[i].text,
                         filePath    |-> chunks[i].filePath,
                         startPos    |-> chunks[i].startPos,
                         granularity |-> chunks[i].granularity,
                         embedding   |-> IF i <= Len(embeddingsFile[1])
                                         THEN <<embeddingsFile[1][i]>> ELSE <<>>]]]

\* generateEmbeddings, when the child process exits with code 0
generateEmbeddings(chunks, e) ==
    [i \in 1..Len(chunks) |->
        [text        |-> chunks[i].text,
         filePath    |-> chunks[i].filePath,
         startPos    |-> chunks[i].startPos,
         granularity |-> chunks[i].granularity,
         embedding   |-> encode(chunks[i].text, embeddingModel(e))]]

----------------------------------------------------------------------------
(* Metadata Store: the SQLite tables documents and chunks.  A database is  *)
(* the record [documents, chunks, autoInc].                                *)

EmptyDb == [documents |-> <<>>, chunks |-> <<>>, autoInc |-> 0]

\* a getOrCreateDocument that inserts a row whatever the table holds
getOrCreateDocumentInsert(db, filePath) ==
    <<[db EXCEPT !.documents =
          Append(@, [id |-> Len(db.documents) + 1, path |-> filePath])],
      Len(db.documents) + 1>>

\* getOrCreateDocument: <<database, document id>>.  Document rows are never
\* deleted, so the AUTOINCREMENT id of a new row is the row count plus one.
getOrCreateDocument(db, filePath) ==
    IF \E i \in 1..Len(db.documents) : db.documents[i].path = filePath
    THEN <<db, (CHOOSE i \in 1..Len(db.documents) : db.documents[i].path = filePath)>>
    ELSE <<[db EXCEPT !.documents =
                Append(@, [id |-> Len(db.documents) + 1, path |-> filePath])],
           Len(db.documents) + 1>>

\* Object.keys(chunksByFile): the file paths in order of first appearance
RECURSIVE FileKeys(_)
FileKeys(chunks) ==
    IF chunks = <<>> THEN <<>>
    ELSE LET rest == FileKeys(SubSeq(chunks, 1, Len(chunks) - 1))
             fp   == chunks[Len(chunks)].filePath
         IN  IF fp \in Range(rest) THEN rest ELSE Append(rest, fp)

\* chunksByFile[filePath]
ChunksOfFile(chunks, filePath) == SelectSeq(chunks, LAMBDA c : c.filePath = filePath)

\* the INSERT loop over one file's chunks: const embeddingId = i, the loop
\* index within this file's chunks
InsertFileChunks(db, documentId, fileChunks) ==
    [db EXCEPT
        !.chunks = @ \o [i \in 1..Len(fileChunks) |->
            [id             |-> db.autoInc + i,
             document_id    |-> documentId,
             text           |-> fileChunks[i].text,
             start_position |-> fileChunks[i].startPos,
             granularity    |-> fileChunks[i].granularity,
             embedding_id   |-> i - 1]],
        !.autoInc = @ + Len(fileChunks)]

\* DELETE FROM chunks WHERE document_id = ?
DeleteDocumentChunksNone(db, documentId) == db
DeleteDocumentChunks(db, documentId) ==
    [db EXCEPT !.chunks = SelectSeq(@, LAMBDA r : r.document_id # documentId)]

\* storeChunks: the database after the loop over Object.keys(chunksByFile)
RECURSIVE StoreFiles(_, _, _)
StoreFiles(db, chunks, keys) ==
    IF keys = <<>> THEN db
    ELSE CHOOSE stored \in
            {LET fileChunks == ChunksOfFile(chunks, Head(keys))
                 cleared    == DeleteDocumentChunks(got[1], got[2])
             IN  StoreFiles(InsertFileChunks(cleared, got[2], fileChunks),
                            chunks, Tail(keys))
             \* const documentId = await getOrCreateDocument(filePath)
             : got \in {getOrCreateDocument(db, Head(keys))}} : TRUE

storeChunks(db, chunks) == StoreFiles(db, chunks, FileKeys(chunks))

\* d.path of the JOIN documents d ON c.document_id = d.id
DocumentPath(db, documentId) ==
    (CHOOSE d \in Range(db.documents) : d.id = documentId).path

\* rows.map(row => ({id, text, filePath, startPos, granularity, embeddingId}))
RowToChunk(db, row) ==
    [id          |-> row.id,
     text        |-> row.text,
     filePath    |-> DocumentPath(db, row.document_id),
     startPos    |-> row.start_position,
     granularity |-> row.granularity,
     embeddingId |-> row.embedding_id]

\* the SELECT ... WHERE c.embedding_id IN (...) of getChunksByEmbeddingIds,
\* rows in rowid order
SelectByEmbeddingIds(db, embeddingIds) ==
    LET rows == SelectSeq(db.chunks, LAMBDA r :
                    /\ r.embedding_id \in Range(embeddingIds)
                    /\ \E d \in Range(db.documents) : d.id = r.document_id)
    IN  [i \in 1..Len(rows) |-> RowToChunk(db, rows[i])]

\* chunks.sort((a, b) => embeddingIds.indexOf(a.embeddingId) -
\*                        embeddingIds.indexOf(b.embeddingId))
SortLikeUnsorted(chunks, embeddingIds) == chunks
SortLike(chunks, embeddingIds) ==
    LET keyed  == [i \in 1..Len(chunks) |->
                      <<IndexOf(embeddingIds, chunks[i].embeddingId), chunks[i]>>]
        sorted == StableSortKeyed(keyed)
    IN  [i \in 1..Len(sorted) |-> sorted[i][2]]

getChunksByEmbeddingIds(db, embeddingIds) ==
    IF Len(embeddingIds) = 0 THEN <<>>
    ELSE SortLike(SelectByEmbeddingIds(db, embeddingIds), embeddingIds)

\* a getChunksByGranularity whose SELECT has no WHERE clause
getChunksByGranularityAll(db, levels) ==
    IF levels = {} THEN <<>>
    ELSE [i \in 1..Len(db.chunks) |-> RowToChunk(db, db.chunks[i])]

\* getChunksByGranularity; levels is the set of keys whose value is true
getChunksByGranularity(db, levels) ==
    IF levels = {} THEN <<>>
    ELSE LET rows == SelectSeq(db.chunks, LAMBDA r :
                        /\ r.granularity \in levels
                        /\ \E d \in Range(db.documents) : d.id = r.document_id)
         IN  [i \in 1..Len(rows) |-> RowToChunk(db, rows[i])]

----------------------------------------------------------------------------
(* Vector Index: faiss.IndexFlatIP persisted as faiss_index.bin            *)

TopK == 5

\* an index build that writes no index once storeChunks has rejected
createFaissIndexStoredOnly(db, chunks, stored) ==
    [db    |-> StoreFiles(db, chunks, SubSeq(FileKeys(chunks), 1, stored)),
     index |-> IF stored = Len(FileKeys(chunks))
               THEN [i \in 1..Len(chunks) |-> chunks[i].embedding] ELSE <<>>]

\* createFaissIndex when storeChunks rejects after it has stored the chunks
\* of the first `stored` files (all of them: storeChunks resolves); the
\* rejection is caught and logged, the index is written all the same
createFaissIndexStored(db, chunks, stored) ==
    [db    |-> StoreFiles(db, chunks, SubSeq(FileKeys(chunks), 1, stored)),
     index |-> [i \in 1..Len(chunks) |-> chunks[i].embedding]]

\* createFaissIndex: storeChunks (a store failure is logged and ignored),
\* then the index is written from chunks.map(c => c.embedding).
\* storeOk = FALSE is the rejected storeChunks promise.
createFaissIndex(db, chunks, storeOk) ==
    [db    |-> IF storeOk THEN storeChunks(db, chunks) ELSE db,
     index |-> [i \in 1..Len(chunks) |-> chunks[i].embedding]]

\* index.search(query, k) with k = min(topK, index.ntotal): the k rows of
\* largest inner product, by descending score.  The order of rows of equal
\* score is the library's; both directions are outcomes (lowFirst).
RankBefore(index, q, lowFirst, i, j) ==
    LET si == InnerProduct(q, index[i])
        sj == InnerProduct(q, index[j])
    IN  \/ si > sj
        \/ si = sj /\ (IF lowFirst THEN i < j ELSE i > j)

faissSearch(index, q, topK, lowFirst) ==
    LET n    == Len(index)
        k    == Min(topK, n)
        \* row i has rank r when exactly r - 1 rows come before it
        rank == [i \in 1..n |->
                    Cardinality({j \in 1..n : RankBefore(index, q, lowFirst, j, i)}) + 1]
        at   == [r \in 1..n |-> CHOOSE i \in 1..n : rank[i] = r]
    IN  [r \in 1..k |-> [index |-> at[r] - 1, score |-> InnerProduct(q, index[at[r]])]]

\* A value that may be undefined is a sequence of length 0 (undefined) or 1.
\* {...chunk, score}: spreading undefined adds no property
WithScore(chunk, score) ==
    IF chunk = <<>> THEN [score |-> score]
    ELSE [f \in (DOMAIN chunk[1]) \cup {"score"} |->
             IF f = "score" THEN score ELSE chunk[1][f]]

\* chunks[result.index]
At(chunks, index) ==
    IF index + 1 \in 1..Len(chunks) THEN <<chunks[index + 1]>> ELSE <<>>

\* dbChunks.find(c => c.embeddingId === result.index) || chunks[result.index]
ResolveChunk(dbChunks, chunks, index) ==
    IF \E i \in 1..Len(dbChunks) : dbChunks[i].embeddingId = index
    THEN <<dbChunks[CHOOSE i \in 1..Len(dbChunks) :
                       /\ dbChunks[i].embeddingId = index
                       /\ \A j \in 1..(i-1) : dbChunks[j].embeddingId # index]>>
    ELSE At(chunks, index)

\* results.map(result => ({...chunk, score: result.score})) of the .then branch
MapResultsByDbOrder(results, dbChunks, chunks) ==
    [i \in 1..Len(dbChunks) |->
        WithScore(<<dbChunks[i]>>,
                  results[IndexOf([r \in 1..Len(results) |-> results[r].index],
                                  dbChunks[i].embeddingId) + 1].score)]
MapResults(results, dbChunks, chunks) ==
    [i \in 1..Len(results) |->
        WithScore(ResolveChunk(dbChunks, chunks, results[i].index), results[i].score)]

\* the .catch branch: every result from the in-memory list
MapResultsFallback(results, chunks) ==
    [i \in 1..Len(results) |-> WithScore(At(chunks, results[i].index), results[i].score)]

----------------------------------------------------------------------------
(* Chunker: chunkText and extractTextChunks                                *)

DefaultChunkSize == 1000

\* \s of a JS regular expression, over the characters used here
IsWhitespace(c) == c \in {" ", "\n", "\t", "\r"}

\* last position of the maximal whitespace run text[from..], or from - 1
WsRunEnd(text, from) ==
    IF from > Len(text) \/ ~IsWhitespace(text[from]) THEN from - 1
    ELSE CHOOSE r \in from..Len(text) :
            /\ \A j \in from..r : IsWhitespace(text[j])
            /\ (r = Len(text) \/ ~IsWhitespace(text[r + 1]))

\* whether the separator matches with its first character at q
\*   "paragraph": /\n\s*\n/        "sentence": /(?<=[.!?])\s+/
SepMatchesAt(text, q, mode) ==
    IF mode = "paragraph"
    THEN /\ text[q] = "\n"
         /\ \E j \in (q + 1)..WsRunEnd(text, q + 1) : text[j] = "\n"
    ELSE /\ IsWhitespace(text[q])
         /\ q > 1
         /\ text[q - 1] \in {".", "!", "?"}

\* last position of the (greedy) match that starts at q
SepMatchEnd(text, q, mode) ==
    IF mode = "paragraph"
    THEN CHOOSE j \in (q + 1)..WsRunEnd(text, q + 1) :
            /\ text[j] = "\n"
            /\ \A k \in (j + 1)..WsRunEnd(text, q + 1) : text[k] # "\n"
    ELSE WsRunEnd(text, q)

\* String.prototype.split(separator): the pieces of text[p..]
RECURSIVE SplitFrom(_, _, _)
SplitFrom(text, p, mode) ==
    IF \E q \in p..Len(text) : SepMatchesAt(text, q, mode)
    THEN LET q == CHOOSE q \in p..Len(text) :
                    /\ SepMatchesAt(text, q, mode)
                    /\ \A j \in p..(q - 1) : ~SepMatchesAt(text, j, mode)
         IN  <<SubSeq(text, p, q - 1)>> \o SplitFrom(text, SepMatchEnd(text, q, mode) + 1, mode)
    ELSE <<SubSeq(text, p, Len(text))>>

Split(text, mode) == SplitFrom(text, 1, mode)

\* an accumulate-and-flush loop that also flushes an empty current chunk
RECURSIVE AccumulateFlushEmpty(_, _, _, _)
AccumulateFlushEmpty(pieces, current, joiner, maxChunkSize) ==
    IF pieces = <<>>
    THEN IF current # <<>> THEN <<current>> ELSE <<>>
    ELSE LET piece == Head(pieces)
         IN  IF Len(current) + Len(piece) > maxChunkSize
             THEN <<current>> \o AccumulateFlushEmpty(Tail(pieces), piece, joiner,
                                                      maxChunkSize)
             ELSE AccumulateFlushEmpty(Tail(pieces),
                             current \o (IF current # <<>> THEN joiner ELSE <<>>) \o piece,
                             joiner, maxChunkSize)

\* an accumulate-and-flush loop that forgets the chunk it flushes
RECURSIVE AccumulateDropFlushed(_, _, _, _)
AccumulateDropFlushed(pieces, current, joiner, maxChunkSize) ==
    IF pieces = <<>>
    THEN IF current # <<>> THEN <<current>> ELSE <<>>
    ELSE LET piece == Head(pieces)
         IN  IF Len(current) + Len(piece) > maxChunkSize /\ Len(current) > 0
             THEN AccumulateDropFlushed(Tail(pieces), piece, joiner, maxChunkSize)
             ELSE AccumulateDropFlushed(Tail(pieces),
                             current \o (IF current # <<>> THEN joiner ELSE <<>>) \o piece,
                             joiner, maxChunkSize)

\* the accumulate-and-flush loop shared by both passes of chunkText:
\* pieces are joined with joiner until the next piece would exceed the size
RECURSIVE Accumulate(_, _, _, _)
Accumulate(pieces, current, joiner, maxChunkSize) ==
    IF pieces = <<>>
    THEN IF current # <<>> THEN <<current>> ELSE <<>>
    ELSE LET piece == Head(pieces)
         IN  IF Len(current) + Len(piece) > maxChunkSize /\ Len(current) > 0
             THEN <<current>> \o Accumulate(Tail(pieces), piece, joiner, maxChunkSize)
             ELSE Accumulate(Tail(pieces),
                             current \o (IF current # <<>> THEN joiner ELSE <<>>) \o piece,
                             joiner, maxChunkSize)

\* the second pass: chunks still too large are split by sentences
RECURSIVE SplitLarge(_, _)
SplitLarge(chunks, maxChunkSize) ==
    IF chunks = <<>> THEN <<>>
    ELSE (IF Len(Head(chunks)) <= maxChunkSize
          THEN <<Head(chunks)>>
          ELSE Accumulate(Split(Head(chunks), "sentence"), <<>>, <<" ">>, maxChunkSize))
         \o SplitLarge(Tail(chunks), maxChunkSize)

chunkText(text, maxChunkSize) ==
    SplitLarge(Accumulate(Split(text, "paragraph"), <<>>, <<"\n", "\n">>, maxChunkSize),
               maxChunkSize)

\* an extractTextChunks without the branch for granularity 'document'
extractTextChunksChunked(content, filePath, chunkSize, granularity) ==
    LET textChunks == chunkText(content, chunkSize)
    IN  [i \in 1..Len(textChunks) |->
           [text        |-> textChunks[i],
            filePath    |-> filePath,
            startPos    |-> SumSeq([j \in 1..(i - 1) |-> Len(textChunks[j])]),
            granularity |-> granularity]]

\* extractTextChunks on the content read from filePath
extractTextChunks(content, filePath, chunkSize, granularity) ==
    IF granularity = "document"
    THEN <<[text |-> content, filePath |-> filePath, startPos |-> 0,
            granularity |-> "document"]>>
    ELSE LET textChunks == chunkText(content, chunkSize)
         IN  [i \in 1..Len(textChunks) |->
                [text        |-> textChunks[i],
                 filePath    |-> filePath,
                 startPos    |-> SumSeq([j \in 1..(i - 1) |-> Len(textChunks[j])]),
                 granularity |-> granularity]]

----------------------------------------------------------------------------
(* The file system the app is pointed at.  Folder A holds six matching     *)
(* files (one unreadable, one empty, one in a subfolder) and one file of   *)
(* another extension; folder B holds two files; folder C does not exist.   *)

File(p, e) == [path |-> p, kind |-> "file", ext |-> e]
Dir(p)     == [path |-> p, kind |-> "dir", ext |-> ""]

Folders == {"A", "B", "C"}

LargeFolderFiles == 26     \* files of folder D, one more than the dev limit

\* the k-th file of folder D
LargeFolderPath(k) == "D/d" \o ToString(k) \o ".txt"

\* readdir + stat + path.extname().toLowerCase() of every entry
DirEntries(dir) ==
    CASE dir = "A"     -> <<File("A/a1.txt", ".txt"), File("A/a2.md", ".md"),
                            File("A/a3.txt", ".txt"), File("A/a4.txt", ".txt"),
                            File("A/a5.txt", ".txt"), Dir("A/sub"),
                            File("A/x.bin", ".bin")>>
      [] dir = "A/sub" -> <<File("A/sub/a6.txt", ".txt")>>
      [] dir = "B"     -> <<File("B/b1.txt", ".txt"), File("B/b2.TXT", ".txt")>>
      [] dir = "D"     -> [k \in 1..LargeFolderFiles |-> File(LargeFolderPath(k), ".txt")]
      [] OTHER         -> <<>>

DirExistsAlways(dir) == TRUE
DirExists(dir) == dir \in {"A", "A/sub", "B", "D"}

Unreadable == {"A/a3.txt", LargeFolderPath(7)}

FileContent(filePath) ==
    CASE filePath = "A/a1.txt"     -> <<"a", "b">>
      [] filePath = "A/a2.md"      -> <<"c">>
      [] filePath = "A/a4.txt"     -> <<>>
      [] filePath = "A/a5.txt"     -> <<"d", ".", "\n", "\n", "b">>
      [] filePath = "A/sub/a6.txt" -> <<"a", "d">>
      [] filePath = "B/b1.txt"     -> <<"b", "b">>
      [] filePath = "B/b2.TXT"     -> <<"a">>
      [] filePath \in {LargeFolderPath(k) : k \in 1..LargeFolderFiles} -> <<"a">>
      [] OTHER                     -> <<>>

DefaultExtensions == {".txt", ".md", ".js", ".html", ".css", ".json"}

\* fileSystem.scanDirectory: the files below dir, depth first in readdir order
RECURSIVE ScanEntries(_, _)
ScanEntries(entries, fileExtensions) ==
    IF entries = <<>> THEN <<>>
    ELSE LET e == Head(entries)
         IN  (IF e.kind = "dir"
              THEN ScanEntries(DirEntries(e.path), fileExtensions)
              ELSE IF e.ext \in fileExtensions \/ fileExtensions = {}
                   THEN <<e.path>>
                   ELSE <<>>)
             \o ScanEntries(Tail(entries), fileExtensions)

scanDirectory(directoryPath, fileExtensions) ==
    ScanEntries(DirEntries(directoryPath), fileExtensions)

----------------------------------------------------------------------------
(* Main process: hereiam-main.js                                           *)

BatchSize == 5
DevLimit  == 25

\* const isDev = process.env.NODE_ENV === 'development' || !app.isPackaged
isDev(e) == e.NODE_ENV = "development" \/ ~e.isPackaged

\* npm start (NODE_ENV=development, unpackaged) and the installed build
Envs == {[NODE_ENV |-> "development", isPackaged |-> FALSE],
         [NODE_ENV |-> "production", isPackaged |-> TRUE]}

GranularityNames == {"paragraph", "page", "document"}

\* the granularity selections a request is made with (the keys set to true)
LevelChoices == {{}, {"paragraph"}, {"page", "document"}}

\* the query texts a search is made with
Queries == {<<>>, <<" ">>, <<"a">>, <<"c", "b">>}

\* !searchQuery.trim()
IsBlankOnlyWhenEmpty(text) == text = <<>>
IsBlank(text) == \A i \in 1..Len(text) : IsWhitespace(text[i])

\* handleSearch: !granularityLevels.paragraph && !granularityLevels.page &&
\* !granularityLevels.document
NoSearchLevelNeverChecked(levels) == FALSE
NoSearchLevelEnabled(levels) ==
    "paragraph" \notin levels /\ "page" \notin levels /\ "document" \notin levels

\* scanDirectory: the same test on indexingGranularityLevels
NoIndexingLevelEnabled(levels) ==
    "paragraph" \notin levels /\ "page" \notin levels /\ "document" \notin levels

ScanIdle == [pc |-> "idle", directoryPath |-> Null, levels |-> {}, allFiles |-> <<>>,
             files |-> <<>>, i |-> 0, processedFiles |-> 0, batchChunks |-> <<>>,
             embedFailed |-> FALSE, saveFailed |-> FALSE, result |-> <<>>,
             progressEvents |-> <<>>, embedRequests |-> <<>>]

NoSearch == [query |-> Null, levels |-> {}, verdict |-> Null,
             buildAttempted |-> FALSE, embedded |-> FALSE,
             indexRead |-> FALSE, built |-> FALSE, faissReturned |-> <<>>,
             dbChunks |-> <<>>, results |-> <<>>]

\* folder: the folder of the last scan requested; completed: <<n>> while
\* the last scan returned success with n > 0 chunks and no scan has started
\* since, else <<>>; snap: <<>>, or <<the chunk set, store and index as they
\* were when a scan of a folder ended without any failure>>, kept while the
\* same folder is scanned a second time without failure (epoch 2)
NoHist == [folder |-> Null, completed |-> <<>>, snap |-> <<>>, epoch |-> 0]

NoApi == [op |-> Null, args |-> <<>>, result |-> <<>>, builds |-> 0,
          storeError |-> FALSE]

\* searchResults is the results field of lastSearch; files is scan.result.files
UiInit == [error |-> Null, isScanning |-> FALSE, isSearching |-> FALSE,
           settingsOpen |-> FALSE, hasIndexedData |-> FALSE,
           needsInitialSetup |-> TRUE, selectedFolder |-> Null]

MaxInFlight == 2    \* IPC requests that are in flight at the same time

Slots == 1..MaxInFlight

\* a slot with no request; chunks is the array a search handler passed on
NoRequest == [kind |-> "none", pc |-> "none", folder |-> Null, chunks |-> <<>>,
              verdict |-> Null]

\* temp_query.json, search_faiss_index.py, temp_query.json.results
NoTempFiles == [query |-> FALSE, script |-> FALSE, results |-> FALSE]

Db == [documents |-> documents, chunks |-> chunksTable, autoInc |-> chunkAutoInc]

Init ==
    /\ env \in Envs
    /\ indexedChunks = <<>>
    /\ indexDataFile = <<>>
    /\ lastIndexedFolder = Null
    /\ windowStateFile = <<>>
    /\ documents = <<>>
    /\ chunksTable = <<>>
    /\ chunkAutoInc = 0
    /\ faissExists = FALSE
    /\ faissIndex = <<>>
    /\ lastBuilt = <<>>
    /\ scan = ScanIdle
    /\ ui = UiInit
    /\ lastSearch = NoSearch
    /\ hist = NoHist
    /\ requests = [r \in Slots |-> NoRequest]
    /\ tempFiles = NoTempFiles
    /\ api = NoApi

----------------------------------------------------------------------------
(* Indexing: renderer scanDirectory and the 'scan-directory' handler.      *)
(* Here requests are handled one at a time, each handler running to its   *)
(* return before the next event; overlapping requests are in ConcSpec.     *)

NoIndexingLevelError == "Please select at least one granularity level for indexing"
NoSearchLevelError   == "Please select at least one granularity level for search"
NoDocumentsError     == "No documents indexed. Please index a folder first."
PythonExitError      == "Python process exited with code 1"

\* extractTextChunks(filePath) is called without chunkSize and granularity:
\* the handler takes (event, directoryPath, fileExtensions) and never reads
\* the granularity levels the renderer sends, so the defaults apply
DefaultGranularity == "paragraph"

\* a loop whose next batch starts at the last file of this one
AfterBatchOverlap(sc) ==
    IF sc.i + BatchSize < Len(sc.files)
    THEN [sc EXCEPT !.pc = "batch", !.i = @ + BatchSize - 1, !.batchChunks = <<>>]
    ELSE [sc EXCEPT !.pc = "save", !.batchChunks = <<>>]

\* where the batch loop goes after the batch that starts at sc.i
AfterBatch(sc) ==
    IF sc.i + BatchSize < Len(sc.files)
    THEN [sc EXCEPT !.pc = "batch", !.i = @ + BatchSize, !.batchChunks = <<>>]
    ELSE [sc EXCEPT !.pc = "save", !.batchChunks = <<>>]

\* state.lastIndexedFolder = directoryPath, written over the file's state
WithLastIndexedFolder(file, directoryPath) ==
    <<[lastIndexedFolder |-> directoryPath]>>

\* indexedChunks = [] before the batch loop
ClearedChunksKept(chunks) == chunks
ClearedChunks(chunks) == <<>>

\* history: a scan of the folder is requested
ScanRequested(h, folder) ==
    IF h.epoch = 1 /\ h.snap[1].folder = folder
    THEN [h EXCEPT !.folder = folder, !.completed = <<>>]
    ELSE [folder |-> folder, completed |-> <<>>, snap |-> <<>>, epoch |-> 0]

\* renderer scanDirectory(folderToScan) up to the await, and the handler up
\* to the batch loop
StartScan(folder, levels) ==
    /\ scan.pc = "idle"
    /\ IF NoIndexingLevelEnabled(levels)
       THEN /\ ui' = [ui EXCEPT !.error = NoIndexingLevelError, !.selectedFolder = folder]
            /\ UNCHANGED <<scan, mainVars, hist>>
       ELSE IF ~DirExists(folder)
       THEN \* readdir rejects: the handler's catch returns the failure
            /\ lastIndexedFolder' = folder
            /\ windowStateFile' = WithLastIndexedFolder(windowStateFile, folder)
            /\ hist' = ScanRequested(hist, folder)
            /\ UNCHANGED <<indexedChunks, indexDataFile>>
            /\ scan' = [ScanIdle EXCEPT !.directoryPath = folder, !.levels = levels,
                           !.result = <<[success |-> FALSE, error |-> "ENOENT"]>>]
            /\ ui' = [ui EXCEPT !.error = "Error scanning directory: ENOENT",
                         !.isScanning = FALSE, !.selectedFolder = folder]
       ELSE LET allFiles == scanDirectory(folder, DefaultExtensions)
                files    == IF isDev(env) THEN Slice(allFiles, 0, DevLimit) ELSE allFiles
            IN  /\ lastIndexedFolder' = folder
                /\ windowStateFile' = WithLastIndexedFolder(windowStateFile, folder)
                /\ hist' = ScanRequested(hist, folder)
                /\ indexedChunks' = ClearedChunks(indexedChunks)
                /\ UNCHANGED indexDataFile
                /\ scan' = [ScanIdle EXCEPT
                               !.pc = IF Len(files) = 0 THEN "save" ELSE "batch",
                               !.directoryPath = folder, !.levels = levels,
                               !.allFiles = allFiles, !.files = files]
                /\ ui' = [ui EXCEPT !.error = Null, !.isScanning = TRUE,
                             !.selectedFolder = folder]
    /\ lastSearch' = NoSearch
    /\ UNCHANGED <<env, concVars, storeVars, indexVars, api>>

\* handleFolderSelected(folderPath) with the settings drawer closed
UiFolderSelected == \E folder \in Folders, levels \in LevelChoices :
    StartScan(folder, levels)

\* the Re-Index Documents button: scanDirectory() on the selected folder
UiReIndex == \E levels \in LevelChoices :
    /\ ui.selectedFolder # Null
    /\ ~ui.isScanning
    /\ ~NoIndexingLevelEnabled(levels)
    /\ StartScan(ui.selectedFolder, levels)

\* a batch loop that gives up at the first file that cannot be read
RECURSIVE ExtractFilesAbort(_)
ExtractFilesAbort(batch) ==
    IF batch = <<>> \/ Head(batch) \in Unreadable THEN <<>>
    ELSE extractTextChunks(FileContent(Head(batch)), Head(batch),
                           DefaultChunkSize, DefaultGranularity)
         \o ExtractFilesAbort(Tail(batch))

\* the chunks of the files of one batch, unreadable files skipped
RECURSIVE ExtractFiles(_)
ExtractFiles(batch) ==
    IF batch = <<>> THEN <<>>
    ELSE (IF Head(batch) \in Unreadable THEN <<>>
          ELSE extractTextChunks(FileContent(Head(batch)), Head(batch),
                                 DefaultChunkSize, DefaultGranularity))
         \o ExtractFiles(Tail(batch))

\* Math.round((processedFiles / totalFiles) * 100)
ProgressPercent(processedFiles, totalFiles) ==
    (200 * processedFiles + totalFiles) \div (2 * totalFiles)

\* progress reported once per batch, after its last file
ProgressEventsPerBatch(batch, processedFiles, totalFiles, totalFilesFound) ==
    LET readable == SelectSeq(batch, LAMBDA f : f \notin Unreadable)
    IN  IF readable = <<>> THEN <<>>
        ELSE <<[progress        |-> ProgressPercent(processedFiles + Len(readable),
                                                    totalFiles),
                currentFile     |-> readable[Len(readable)],
                processedFiles  |-> processedFiles + Len(readable),
                totalFiles      |-> totalFiles,
                totalFilesFound |-> totalFilesFound]>>

\* the 'indexing-progress' events the inner loop sends for one batch: after
\* a file is chunked processedFiles++ and one event; a file that cannot be
\* read sends none
RECURSIVE ProgressEvents(_, _, _, _)
ProgressEvents(batch, processedFiles, totalFiles, totalFilesFound) ==
    IF batch = <<>> THEN <<>>
    ELSE IF Head(batch) \in Unreadable
    THEN ProgressEvents(Tail(batch), processedFiles, totalFiles, totalFilesFound)
    ELSE <<[progress        |-> ProgressPercent(processedFiles + 1, totalFiles),
            currentFile     |-> Head(batch),
            processedFiles  |-> processedFiles + 1,
            totalFiles      |-> totalFiles,
            totalFilesFound |-> totalFilesFound]>>
         \o ProgressEvents(Tail(batch), processedFiles + 1, totalFiles, totalFilesFound)

\* one pass of the inner loop: every file of the batch is read and chunked
ScanExtractBatch ==
    /\ scan.pc = "batch"
    /\ LET batch       == Slice(scan.files, scan.i, scan.i + BatchSize)
           batchChunks == ExtractFiles(batch)
           readable    == SelectSeq(batch, LAMBDA f : f \notin Unreadable)
           events      == ProgressEvents(batch, scan.processedFiles, Len(scan.files),
                                         Len(scan.allFiles))
           counted     == [scan EXCEPT !.processedFiles = @ + Len(readable),
                                       !.progressEvents = @ \o events]
       IN  scan' = IF Len(batchChunks) > 0
                   THEN [counted EXCEPT !.pc = "embed", !.batchChunks = batchChunks]
                   ELSE AfterBatch(counted)
    /\ lastSearch' = NoSearch
    /\ UNCHANGED <<env, concVars, mainVars, storeVars, indexVars, ui, hist, api>>

\* the embedding requests of the scan so far and this one: the batch's
\* files, the chunks handed to generateEmbeddings and how the request ended
WithEmbedRequest(sc, ok) ==
    [sc EXCEPT !.embedRequests =
        Append(@, [files  |-> Slice(sc.files, sc.i, sc.i + BatchSize),
                   chunks |-> sc.batchChunks,
                   ok     |-> ok])]

\* await generateEmbeddings(batchChunks) resolves (ok) or rejects
ScanEmbedBatch == \E ok \in BOOLEAN :
    /\ scan.pc = "embed"
    /\ IF ok
       THEN /\ indexedChunks' = indexedChunks \o generateEmbeddings(scan.batchChunks, env)
            /\ scan' = AfterBatch(WithEmbedRequest(scan, TRUE))
       ELSE /\ UNCHANGED indexedChunks
            /\ scan' = AfterBatch([WithEmbedRequest(scan, FALSE) EXCEPT !.embedFailed = TRUE])
    /\ lastSearch' = NoSearch
    /\ UNCHANGED <<env, concVars, indexDataFile, lastIndexedFolder, windowStateFile, storeVars,
                   indexVars, ui, hist, api>>

\* the verdict the handler returns after the batch loop
ScanVerdict(sc, chunks) ==
    [success |-> TRUE, files |-> sc.files, chunksCount |-> Len(chunks),
     totalFilesFound |-> Len(sc.allFiles)]

\* saveIndexedChunks(): writeFileSync succeeds (saveOk) or throws; the
\* exception is caught and logged
saveIndexedChunks(file, chunks, saveOk) == IF saveOk THEN <<chunks>> ELSE file

\* history: the scan returns this verdict
ScanReturns(h, verdict, saveOk) ==
    LET clean == verdict.success /\ ~scan.embedFailed /\ saveOk
        completed == IF verdict.success /\ Len(indexedChunks) > 0
                     THEN <<Len(indexedChunks)>> ELSE <<>>
    IN  IF ~clean
        THEN [h EXCEPT !.completed = completed, !.snap = <<>>, !.epoch = 0]
        ELSE IF h.epoch = 1
        THEN [h EXCEPT !.completed = completed, !.epoch = 2]
        ELSE [h EXCEPT !.completed = completed, !.epoch = 1,
                       !.snap = <<[folder |-> scan.directoryPath,
                                   chunks |-> indexedChunks, db |-> Db,
                                   exists |-> faissExists, index |-> faissIndex]>>]

\* saveIndexedChunks(), the handler's return and the renderer's continuation
FinishScan(saveOk) ==
    /\ scan.pc = "save"
    /\ indexDataFile' = saveIndexedChunks(indexDataFile, indexedChunks, saveOk)
    /\ LET returned == ScanVerdict(scan, indexedChunks)
       IN  /\ scan' = [scan EXCEPT !.pc = "idle", !.saveFailed = ~saveOk,
                                   !.result = <<returned>>]
           /\ hist' = ScanReturns(hist, returned, saveOk)
           /\ ui' = IF returned.success
                    THEN [ui EXCEPT !.hasIndexedData = TRUE, !.settingsOpen = FALSE,
                             !.needsInitialSetup = FALSE, !.isScanning = FALSE]
                    ELSE [ui EXCEPT !.error = "Error scanning directory", !.isScanning = FALSE]
    /\ lastSearch' = NoSearch
    /\ UNCHANGED <<env, concVars, indexedChunks, lastIndexedFolder, windowStateFile, storeVars,
                   indexVars, api>>

\* the scan ends and the chunk file is written
ScanFinish == FinishScan(TRUE)

\* the scan ends while the chunk file may not be writable
ScanFinishDisk == \E saveOk \in BOOLEAN : FinishScan(saveOk)

----------------------------------------------------------------------------
(* Query: renderer handleSearch, the 'search' handler and searchChunks     *)

\* how the steps of one search end.  build: create_faiss_index.py exits
\* with code 0; exit: how search_faiss_index.py ends ("provider_error": the
\* model cannot be loaded, "index_error": read_index or search raises);
\* dbOk: getChunksByEmbeddingIds resolves; lowFirst: the index's order of
\* rows of equal score.
Run(build, exit, dbOk, lowFirst) ==
    [build |-> build, exit |-> exit, dbOk |-> dbOk, lowFirst |-> lowFirst]

\* the runs in which both child processes exit with code 0
OkRuns ==
    {Run(TRUE, "ok", dbOk, lowFirst) : dbOk \in BOOLEAN, lowFirst \in BOOLEAN}

\* and those in which one of them fails
SearchRuns ==
    OkRuns
    \cup {Run(FALSE, "ok", TRUE, TRUE),
          Run(TRUE, "provider_error", TRUE, TRUE),
          Run(TRUE, "index_error", TRUE, TRUE)}

\* if (!fs.existsSync(indexPath))
IndexMissingNever(exists) == FALSE
IndexMissingAlways(exists) == TRUE
IndexMissing(exists) == ~exists

\* searchChunks(query, chunks) run on the given store and index file.
\* storeChunks has written its rows before the build's child process ends;
\* a failed build and a failed search process reject the promise (ok = FALSE).
searchChunksOn(exists, db, index, query, chunks, run) ==
    LET missing  == IndexMissing(exists)
        made     == createFaissIndex(db, chunks, TRUE)
        built    == missing /\ run.build
        started  == ~missing \/ run.build
        db1      == IF missing THEN made.db ELSE db
        exists1  == exists \/ built
        index1   == IF built THEN made.index ELSE index
        embedded == started /\ run.exit # "provider_error"
        searched == embedded /\ exists1 /\ run.exit = "ok"
        q        == encode(query, embeddingModel(env))
        results  == IF searched THEN faissSearch(index1, q, TopK, run.lowFirst) ELSE <<>>
        ids      == [i \in 1..Len(results) |-> results[i].index]
        dbChunks == IF run.dbOk THEN getChunksByEmbeddingIds(db1, ids) ELSE <<>>
    IN  [ok |-> searched, buildAttempted |-> missing, built |-> built,
         embedded |-> embedded, indexRead |-> embedded,
         db |-> db1, exists |-> exists1, index |-> index1,
         faissReturned |-> results, dbChunks |-> dbChunks,
         results |-> IF run.dbOk THEN MapResults(results, dbChunks, chunks)
                     ELSE MapResultsFallback(results, chunks)]

\* searchChunks(query, chunks) on the store and index file as they are
searchChunks(query, chunks, run) ==
    searchChunksOn(faissExists, Db, faissIndex, query, chunks, run)

\* the 'search' handler: if (indexedChunks.length === 0)
NoDocumentsIndexedNever(chunks) == FALSE
NoDocumentsIndexed(chunks) == Len(chunks) = 0

\* handleSearch: the two renderer checks, then window.electron.search, the
\* handler and the renderer's continuation.  lastSearch describes the
\* request handled by the latest step.
HandleSearch(query, levels, runs) ==
    /\ ~ui.needsInitialSetup
    /\ scan.pc = "idle"
    /\ IF IsBlank(query)
       THEN \* if (!searchQuery.trim()) return;
            /\ lastSearch' = [NoSearch EXCEPT !.query = query, !.levels = levels,
                                 !.verdict = "ignored"]
            /\ UNCHANGED <<ui, storeVars, indexVars>>
       ELSE IF NoSearchLevelEnabled(levels)
       THEN /\ ui' = [ui EXCEPT !.error = NoSearchLevelError]
            /\ lastSearch' = [NoSearch EXCEPT !.query = query, !.levels = levels,
                                 !.verdict = "rejected"]
            /\ UNCHANGED <<storeVars, indexVars>>
       ELSE IF NoDocumentsIndexed(indexedChunks)
       THEN /\ ui' = [ui EXCEPT !.error = "Error searching: " \o NoDocumentsError]
            /\ lastSearch' = [NoSearch EXCEPT !.query = query, !.levels = levels,
                                 !.verdict = "failure"]
            /\ UNCHANGED <<storeVars, indexVars>>
       ELSE \E run \in runs :
            \E out \in {searchChunks(query, indexedChunks, run)} :
                /\ documents' = out.db.documents
                /\ chunksTable' = out.db.chunks
                /\ chunkAutoInc' = out.db.autoInc
                /\ faissExists' = out.exists
                /\ faissIndex' = out.index
                /\ lastBuilt' = IF out.built THEN indexedChunks ELSE lastBuilt
                /\ ui' = [ui EXCEPT !.error =
                             IF out.ok THEN Null ELSE "Error searching: " \o PythonExitError]
                /\ lastSearch' = [query |-> query, levels |-> levels,
                                  verdict |-> IF out.ok THEN "success" ELSE "failure",
                                  buildAttempted |-> out.buildAttempted,
                                  embedded |-> out.embedded,
                                  indexRead |-> out.indexRead, built |-> out.built,
                                  faissReturned |-> out.faissReturned,
                                  dbChunks |-> out.dbChunks,
                                  results |-> IF out.ok THEN out.results ELSE <<>>]
    /\ UNCHANGED <<env, concVars, mainVars, scan, hist, api>>

UiHandleSearch == \E query \in Queries, levels \in LevelChoices :
    HandleSearch(query, levels, OkRuns)

----------------------------------------------------------------------------
(* Direct use of the Metadata Store and Vector Index functions that        *)
(* fileSystem.js exports, on chunk lists and handle lists drawn from       *)
(* bounded sets (StoreSpec).                                               *)

MaxChunks  == 2     \* longest chunk list handed to an index build
MaxBuilds  == 2     \* index builds per behaviour
MaxHandles == 2     \* longest handle list handed to getChunksByEmbeddingIds

ApiFiles == {"f1.txt", "f2.txt"}

\* the j-th chunk of the b-th build, taken from file f: every chunk of a
\* behaviour has its own text
ApiChunk(f, b, j) ==
    LET text == <<"c", IF b = 1 THEN "a" ELSE IF b = 2 THEN "b" ELSE "d">>
                \o [k \in 1..j |-> "d"]
    IN  [text |-> text, filePath |-> f, startPos |-> j - 1,
         granularity |-> "paragraph",
         embedding |-> encode(text, "all-MiniLM-L6-v2")]

\* the chunk lists of build b: one chunk per position, from any of the files
ApiChunkLists(b) ==
    UNION {{[j \in 1..n |-> ApiChunk(fs[j], b, j)] : fs \in [1..n -> ApiFiles]}
           : n \in 1..MaxChunks}

HandleLists == SeqsUpTo(0..MaxChunks, MaxHandles)

\* createFaissIndex(chunks) called directly
ApiCreateFaissIndex == \E chunks \in ApiChunkLists(api.builds + 1) :
    /\ api.builds < MaxBuilds
    /\ \E made \in {createFaissIndex(Db, chunks, TRUE)} :
        /\ documents' = made.db.documents
        /\ chunksTable' = made.db.chunks
        /\ chunkAutoInc' = made.db.autoInc
        /\ faissExists' = TRUE
        /\ faissIndex' = made.index
        /\ lastBuilt' = chunks
    /\ api' = [op |-> "createFaissIndex", args |-> chunks, result |-> <<>>,
               builds |-> api.builds + 1, storeError |-> FALSE]
    /\ UNCHANGED <<env, concVars, mainVars, scan, ui, lastSearch, hist>>

\* getChunksByEmbeddingIds(embeddingIds) called directly
ApiGetChunksByEmbeddingIds == \E embeddingIds \in HandleLists :
    /\ api' = [api EXCEPT !.op = "getChunksByEmbeddingIds", !.args = embeddingIds,
                          !.result = getChunksByEmbeddingIds(Db, embeddingIds)]
    /\ UNCHANGED <<env, concVars, mainVars, storeVars, indexVars, scan, ui, lastSearch, hist>>

StoreNext == ApiCreateFaissIndex \/ ApiGetChunksByEmbeddingIds

\* the functions are exercised in the packaged application
StoreInit == Init /\ env = [NODE_ENV |-> "production", isPackaged |-> TRUE]

StoreSpec == StoreInit /\ [][StoreNext]_vars

----------------------------------------------------------------------------
(* The same functions on a database that may reject a statement, and       *)
(* getOrCreateDocument on its own (StoreFaultSpec)                         *)

DocFiles == ApiFiles \cup {"f3.txt"}

\* createFaissIndex(chunks) whose storeChunks rejects at the first statement
\* for one of the files
ApiCreateFaissIndexStoreError == \E chunks \in ApiChunkLists(api.builds + 1) :
    /\ api.builds < MaxBuilds
    /\ \E stored \in 0..(Len(FileKeys(chunks)) - 1) :
       \E made \in {createFaissIndexStored(Db, chunks, stored)} :
        /\ documents' = made.db.documents
        /\ chunksTable' = made.db.chunks
        /\ chunkAutoInc' = made.db.autoInc
        /\ faissExists' = TRUE
        /\ faissIndex' = made.index
        /\ lastBuilt' = chunks
    /\ api' = [op |-> "createFaissIndex", args |-> chunks, result |-> <<>>,
               builds |-> api.builds + 1, storeError |-> TRUE]
    /\ UNCHANGED <<env, concVars, mainVars, scan, ui, lastSearch, hist>>

\* getOrCreateDocument(filePath) called directly
ApiGetOrCreateDocument == \E filePath \in DocFiles :
    /\ \E got \in {getOrCreateDocument(Db, filePath)} :
        /\ documents' = got[1].documents
        /\ api' = [api EXCEPT !.op = "getOrCreateDocument", !.args = filePath,
                              !.result = <<got[2]>>, !.storeError = FALSE]
    /\ UNCHANGED <<env, concVars, mainVars, chunksTable, chunkAutoInc, indexVars, scan, ui,
                   lastSearch, hist>>

StoreFaultNext ==
    \/ ApiCreateFaissIndex
    \/ ApiCreateFaissIndexStoreError
    \/ ApiGetOrCreateDocument

StoreFaultSpec == StoreInit /\ [][StoreFaultNext]_vars

----------------------------------------------------------------------------
(* Direct use of the chunker and of the Embedding Provider function, on    *)
(* texts and child-process outcomes drawn from bounded sets (ExportSpec)   *)

MaxTextLen == 4     \* longest document text handed to the chunker

MaxVectors == 3     \* most vectors in temp_chunks.json.embeddings

Alphabet == {"a", ".", " ", "\n"}

Texts == SeqsUpTo(Alphabet, MaxTextLen)

ChunkSizes == {0, 1, 2, 3, DefaultChunkSize}

Granularities == {"paragraph", "page", "document"}

\* extractTextChunks(filePath, chunkSize, granularity) on a readable file;
\* the function keeps no state, so a behaviour makes one call
ApiExtractTextChunks ==
    \E content \in Texts, chunkSize \in ChunkSizes, granularity \in Granularities :
        /\ api.op = Null
        /\ api' = [api EXCEPT
                      !.op = "extractTextChunks",
                      !.args = [content |-> content, chunkSize |-> chunkSize,
                                granularity |-> granularity],
                      !.result = extractTextChunks(content, "f1.txt", chunkSize,
                                                   granularity)]
        /\ UNCHANGED <<env, concVars, mainVars, storeVars, indexVars, scan, ui,
                       lastSearch, hist>>

\* the chunk lists handed to generateEmbeddings: the chunks of a text
ProviderChunkLists ==
    {extractTextChunks(content, "f1.txt", 1, "paragraph") :
        content \in {<<"a">>, <<"a", "\n", "\n", "b">>}}

\* what temp_chunks.json.embeddings holds when the process has exited: no
\* file, or a list of unit vectors
EmbeddingsFiles == {<<>>} \cup {<<vectors>> : vectors \in SeqsUpTo(Range(Axes), MaxVectors)}

\* generateEmbeddings(chunks) called directly; the child process exits with
\* some code and leaves some embeddings file
ApiGenerateEmbeddings ==
    \E chunks \in ProviderChunkLists, code \in {0, 1}, embeddingsFile \in EmbeddingsFiles :
        /\ api.op = Null
        /\ api' = [api EXCEPT
                      !.op = "generateEmbeddings",
                      !.args = [chunks |-> chunks, code |-> code,
                                embeddingsFile |-> embeddingsFile],
                      !.result = generateEmbeddingsOn(chunks, code, embeddingsFile)]
        /\ UNCHANGED <<env, concVars, mainVars, storeVars, indexVars, scan, ui,
                       lastSearch, hist>>

ExportNext == ApiExtractTextChunks \/ ApiGenerateEmbeddings

ExportSpec == StoreInit /\ [][ExportNext]_vars

----------------------------------------------------------------------------
(* getChunksByGranularity on a store whose chunks carry different          *)
(* granularity tags (GranularitySpec)                                      *)

\* ApiChunk with a granularity tag of its own
TaggedChunk(f, b, j, granularity) ==
    [ApiChunk(f, b, j) EXCEPT !.granularity = granularity]

\* the chunk lists of build b, every chunk from any file with any tag
TaggedChunkLists(b) ==
    UNION {{[j \in 1..n |-> TaggedChunk(fs[j], b, j, gs[j])] :
                fs \in [1..n -> ApiFiles], gs \in [1..n -> Granularities]}
           : n \in 1..MaxChunks}

\* createFaissIndex(chunks) called directly on tagged chunks
ApiCreateFaissIndexTagged == \E chunks \in TaggedChunkLists(api.builds + 1) :
    /\ api.builds < MaxBuilds
    /\ \E made \in {createFaissIndex(Db, chunks, TRUE)} :
        /\ documents' = made.db.documents
        /\ chunksTable' = made.db.chunks
        /\ chunkAutoInc' = made.db.autoInc
        /\ faissExists' = TRUE
        /\ faissIndex' = made.index
        /\ lastBuilt' = chunks
    /\ api' = [op |-> "createFaissIndex", args |-> chunks, result |-> <<>>,
               builds |-> api.builds + 1, storeError |-> FALSE]
    /\ UNCHANGED <<env, concVars, mainVars, scan, ui, lastSearch, hist>>

\* getChunksByGranularity(granularityLevels) called directly; levels is the
\* set of keys of granularityLevels whose value is true
ApiGetChunksByGranularity == \E levels \in SUBSET Granularities :
    /\ api' = [api EXCEPT !.op = "getChunksByGranularity", !.args = levels,
                          !.result = getChunksByGranularity(Db, levels)]
    /\ UNCHANGED <<env, concVars, mainVars, storeVars, indexVars, scan, ui, lastSearch, hist>>

GranularityNext == ApiCreateFaissIndexTagged \/ ApiGetChunksByGranularity

GranularitySpec == StoreInit /\ [][GranularityNext]_vars

----------------------------------------------------------------------------
(* Process lifetime: window close, quit, start, renderer mount             *)

\* saveWindowState(window) on the window's close event.  normal: the window
\* is neither maximized nor minimized; the bounds are left out of the state.
saveWindowState(file, folder, normal) ==
    IF ~normal THEN file
    ELSE IF folder # Null THEN <<[lastIndexedFolder |-> folder]>>
    ELSE <<[lastIndexedFolder |-> Null]>>

\* loadIndexedChunks(): the parsed file, or the chunks held when it is absent
loadIndexedChunks(file, chunks) == IF file # <<>> THEN file[1] ELSE chunks

\* the 'check-indexed-data' handler called with these chunks in memory:
\* its return value and the chunks held afterwards
checkIndexedData(chunks, dataFile, stateFile) ==
    LET held == IF Len(chunks) = 0 THEN loadIndexedChunks(dataFile, chunks) ELSE chunks
    IN  [success |-> TRUE, hasData |-> Len(held) > 0, chunksCount |-> Len(held),
         folderPath |-> IF stateFile # <<>> THEN stateFile[1].lastIndexedFolder ELSE Null,
         held |-> held]

\* the window is closed and the application quits; it is started again:
\* whenReady loads the chunks, the renderer mounts and checkForIndexedData
\* sets its state
Restart == \E normal \in BOOLEAN :
    /\ windowStateFile' = saveWindowState(windowStateFile, lastIndexedFolder, normal)
    /\ lastIndexedFolder' = Null
    /\ LET loaded == loadIndexedChunks(indexDataFile, <<>>)
           result == checkIndexedData(loaded, indexDataFile, windowStateFile')
       IN  /\ indexedChunks' = result.held
           /\ ui' = [UiInit EXCEPT !.hasIndexedData = result.hasData,
                                   !.selectedFolder = result.folderPath,
                                   !.needsInitialSetup = ~result.hasData]
    /\ scan' = ScanIdle
    /\ lastSearch' = NoSearch
    /\ hist' = [hist EXCEPT !.snap = <<>>, !.epoch = 0]
    /\ UNCHANGED <<env, concVars, indexDataFile, storeVars, indexVars, api>>

----------------------------------------------------------------------------
(* Scans and restarts on a disk that may refuse the chunk file (DiskSpec)  *)

DiskFolderSelected == \E folder \in Folders : StartScan(folder, {DefaultGranularity})

DiskNext ==
    \/ DiskFolderSelected
    \/ ScanExtractBatch
    \/ ScanEmbedBatch
    \/ ScanFinishDisk
    \/ Restart

DiskSpec == Init /\ [][DiskNext]_vars

----------------------------------------------------------------------------
(* Scans of a folder with more files than the dev limit (ProgressSpec)     *)

ProgressFolderSelected == \E folder \in {"A", "D"} :
    StartScan(folder, {DefaultGranularity})

ProgressNext ==
    \/ ProgressFolderSelected
    \/ ScanExtractBatch
    \/ ScanEmbedBatch
    \/ ScanFinish

ProgressSpec == Init /\ [][ProgressNext]_vars

----------------------------------------------------------------------------
(* Searches whose child processes may fail (FaultSpec)                     *)

MaxStoredRows == 4  \* no further search once chunks.id has reached this value

FaultFolderSelected == \E folder \in {"A", "B"} : StartScan(folder, {DefaultGranularity})

FaultHandleSearch == \E query \in {<<"a">>, <<"c", "b">>} :
    /\ chunkAutoInc < MaxStoredRows
    /\ HandleSearch(query, {DefaultGranularity}, SearchRuns)

FaultNext ==
    \/ FaultFolderSelected
    \/ ScanExtractBatch
    \/ ScanEmbedBatch
    \/ ScanFinish
    \/ FaultHandleSearch

FaultSpec == Init /\ [][FaultNext]_vars

----------------------------------------------------------------------------
(* Overlapping requests (ConcSpec).  The renderer sends a request with     *)
(* ipcRenderer.invoke and goes on handling events; the main process runs   *)
(* each handler up to its next await, so the handlers of the requests in   *)
(* flight interleave at their awaits.  The batch loop of a scan is taken   *)
(* as one step here, and a search keeps the chunk array it was called      *)
(* with.                                                                   *)

ConcFolders == {"B"}

ConcLevels == {DefaultGranularity}

ConcQuery == <<"a">>

InFlight(kind) == {r \in Slots : requests[r].kind = kind}

\* the slot a new request takes
FreeSlot == CHOOSE r \in Slots :
    /\ requests[r].kind = "none"
    /\ \A q \in Slots : requests[q].kind = "none" => r <= q

HasFreeSlot == \E r \in Slots : requests[r].kind = "none"

\* the chunks a scan of the folder pushes, all its batches together, in the
\* production build
ScannedChunks ==
    [folder \in ConcFolders |->
        generateEmbeddings(ExtractFiles(scanDirectory(folder, DefaultExtensions)),
                           [NODE_ENV |-> "production", isPackaged |-> TRUE])]

FolderChunks(folder) == ScannedChunks[folder]

\* renderer scanDirectory(directoryPath) up to its await
InvokeScanDirectory(folder) ==
    /\ HasFreeSlot
    /\ requests' = [requests EXCEPT ![FreeSlot] =
                       [NoRequest EXCEPT !.kind = "scan", !.pc = "handler",
                                         !.folder = folder]]

\* handleSelectFolder: the Select Folder button of the initial setup screen
\* or the Change Folder button of the settings drawer
ConcSelectFolder == \E folder \in ConcFolders :
    /\ ui.needsInitialSetup \/ ui.settingsOpen
    /\ IF ui.settingsOpen
       THEN /\ ui' = [ui EXCEPT !.selectedFolder = folder]
            /\ UNCHANGED requests
       ELSE /\ InvokeScanDirectory(folder)
            /\ ui' = [ui EXCEPT !.selectedFolder = folder, !.isScanning = TRUE,
                                !.error = Null]
    /\ UNCHANGED <<env, mainVars, storeVars, indexVars, scan, lastSearch, hist,
                   tempFiles, api>>

\* File > Open Folder or CommandOrControl+O: the main process sends
\* 'folder-selected' to the listener registered at mount, whose closure
\* holds settingsOpen = false
ConcMenuOpenFolder == \E folder \in ConcFolders :
    /\ InvokeScanDirectory(folder)
    /\ ui' = [ui EXCEPT !.selectedFolder = folder, !.isScanning = TRUE,
                        !.error = Null]
    /\ UNCHANGED <<env, mainVars, storeVars, indexVars, scan, lastSearch, hist,
                   tempFiles, api>>

\* the Re-Index button of the settings drawer, disabled while isScanning
ConcReIndex ==
    /\ ui.settingsOpen
    /\ ~ui.isScanning
    /\ ui.selectedFolder # Null
    /\ InvokeScanDirectory(ui.selectedFolder)
    /\ ui' = [ui EXCEPT !.isScanning = TRUE, !.error = Null]
    /\ UNCHANGED <<env, mainVars, storeVars, indexVars, scan, lastSearch, hist,
                   tempFiles, api>>

\* toggleSettings: the settings button of the app bar, the drawer's onClose
ConcToggleSettings ==
    /\ ui' = [ui EXCEPT !.settingsOpen = ~ui.settingsOpen]
    /\ UNCHANGED <<env, mainVars, storeVars, indexVars, scan, lastSearch, hist,
                   concVars, api>>

\* renderer handleSearch() up to its await, the query and the levels valid
InvokeSearch ==
    /\ HasFreeSlot
    /\ requests' = [requests EXCEPT ![FreeSlot] =
                       [NoRequest EXCEPT !.kind = "search", !.pc = "handler"]]
    /\ ui' = [ui EXCEPT !.isSearching = TRUE, !.error = Null]
    /\ UNCHANGED <<env, mainVars, storeVars, indexVars, scan, lastSearch, hist,
                   tempFiles, api>>

\* Enter in the search field: onKeyPress calls handleSearch() whatever
\* isSearching and isScanning are
ConcPressEnter ==
    /\ ~ui.needsInitialSetup
    /\ ~ui.settingsOpen
    /\ InvokeSearch

\* the Search button, disabled while isSearching or without indexed data
ConcClickSearch ==
    /\ ~ui.needsInitialSetup
    /\ ~ui.settingsOpen
    /\ ~ui.isSearching
    /\ ui.hasIndexedData
    /\ InvokeSearch

\* 'scan-directory' handler up to the await of scanDirectory
ConcScanStart(r) ==
    /\ requests[r].kind = "scan"
    /\ requests[r].pc = "handler"
    /\ lastIndexedFolder' = requests[r].folder
    /\ windowStateFile' = WithLastIndexedFolder(windowStateFile, requests[r].folder)
    /\ requests' = [requests EXCEPT ![r].pc = "clear"]
    /\ UNCHANGED <<env, indexedChunks, indexDataFile, storeVars, indexVars, scan, ui,
                   lastSearch, hist, tempFiles, api>>

\* the enumeration has resolved: indexedChunks = []
ConcScanClear(r) ==
    /\ requests[r].kind = "scan"
    /\ requests[r].pc = "clear"
    /\ indexedChunks' = ClearedChunks(indexedChunks)
    /\ requests' = [requests EXCEPT ![r].pc = "batch"]
    /\ UNCHANGED <<env, indexDataFile, lastIndexedFolder, windowStateFile, storeVars,
                   indexVars, scan, ui, lastSearch, hist, tempFiles, api>>

\* the batch loop: indexedChunks.push(...chunksWithEmbeddings)
ConcScanBatches(r) ==
    /\ requests[r].kind = "scan"
    /\ requests[r].pc = "batch"
    /\ indexedChunks' = indexedChunks \o FolderChunks(requests[r].folder)
    /\ requests' = [requests EXCEPT ![r].pc = "save"]
    /\ UNCHANGED <<env, indexDataFile, lastIndexedFolder, windowStateFile, storeVars,
                   indexVars, scan, ui, lastSearch, hist, tempFiles, api>>

\* saveIndexedChunks(), the handler's return and the renderer's continuation
ConcScanReturn(r) ==
    /\ requests[r].kind = "scan"
    /\ requests[r].pc = "save"
    /\ indexDataFile' = saveIndexedChunks(indexDataFile, indexedChunks, TRUE)
    /\ requests' = [requests EXCEPT ![r] = NoRequest]
    /\ ui' = [ui EXCEPT !.hasIndexedData = TRUE, !.settingsOpen = FALSE,
                        !.needsInitialSetup = FALSE, !.isScanning = FALSE]
    /\ UNCHANGED <<env, indexedChunks, lastIndexedFolder, windowStateFile, storeVars,
                   indexVars, scan, lastSearch, hist, tempFiles, api>>

\* writeFileSync of temp_query.json and of search_faiss_index.py
WriteTempFiles(files) == [files EXCEPT !.query = TRUE, !.script = TRUE]

\* 'search' handler up to the first await of searchChunks
ConcSearchStart(r) ==
    /\ requests[r].kind = "search"
    /\ requests[r].pc = "handler"
    /\ IF Len(indexedChunks) = 0
       THEN /\ requests' = [requests EXCEPT ![r].pc = "return",
                                            ![r].verdict = NoDocumentsError]
            /\ UNCHANGED tempFiles
       ELSE IF IndexMissing(faissExists)
       THEN /\ requests' = [requests EXCEPT ![r].pc = "build",
                                            ![r].chunks = indexedChunks]
            /\ UNCHANGED tempFiles
       ELSE /\ requests' = [requests EXCEPT ![r].pc = "python",
                                            ![r].chunks = indexedChunks]
            /\ tempFiles' = WriteTempFiles(tempFiles)
    /\ UNCHANGED <<env, mainVars, storeVars, indexVars, scan, ui, lastSearch, hist, api>>

\* createFaissIndex(chunks) of searchChunks settles; a failed build cannot
\* be repeated once chunks.id has reached MaxStoredRows
ConcSearchBuild(r) ==
    /\ requests[r].kind = "search"
    /\ requests[r].pc = "build"
    /\ \E build \in (IF chunkAutoInc < MaxStoredRows THEN BOOLEAN ELSE {TRUE}) :
       \E made \in {createFaissIndex(Db, requests[r].chunks, TRUE)} :
        /\ documents' = made.db.documents
        /\ chunksTable' = made.db.chunks
        /\ chunkAutoInc' = made.db.autoInc
        /\ faissExists' = (faissExists \/ build)
        /\ faissIndex' = IF build THEN made.index ELSE faissIndex
        /\ lastBuilt' = IF build THEN requests[r].chunks ELSE lastBuilt
        /\ IF build
           THEN /\ requests' = [requests EXCEPT ![r].pc = "python"]
                /\ tempFiles' = WriteTempFiles(tempFiles)
           ELSE /\ requests' = [requests EXCEPT ![r].pc = "return",
                                                ![r].verdict = PythonExitError]
                /\ UNCHANGED tempFiles
    /\ UNCHANGED <<env, mainVars, scan, ui, lastSearch, hist, api>>

\* the search script runs and exits: it reads temp_query.json and writes
\* temp_query.json.results before it exits with code 0
ConcSearchPython(r) ==
    /\ requests[r].kind = "search"
    /\ requests[r].pc = "python"
    /\ \E code \in (IF tempFiles.query THEN {0, 1} ELSE {1}) :
        /\ requests' = [requests EXCEPT ![r].pc = IF code = 0 THEN "close0" ELSE "close1"]
        /\ tempFiles' = IF code = 0 THEN [tempFiles EXCEPT !.results = TRUE] ELSE tempFiles
    /\ UNCHANGED <<env, mainVars, storeVars, indexVars, scan, ui, lastSearch, hist, api>>

\* python.on('close'): reject on a non-zero code or an unreadable results
\* file, otherwise call getChunksByEmbeddingIds
ConcSearchClose(r) ==
    /\ requests[r].kind = "search"
    /\ requests[r].pc \in {"close0", "close1"}
    /\ requests' =
          IF requests[r].pc = "close1"
          THEN [requests EXCEPT ![r].pc = "return", ![r].verdict = PythonExitError]
          ELSE IF ~tempFiles.results
          THEN [requests EXCEPT ![r].pc = "return", ![r].verdict = "ENOENT"]
          ELSE [requests EXCEPT ![r].pc = "mapped"]
    /\ UNCHANGED <<env, mainVars, storeVars, indexVars, scan, ui, lastSearch, hist,
                   tempFiles, api>>

\* the three unlinkSync calls in order, up to the first that throws
Unlinked(files) ==
    IF ~files.query THEN files
    ELSE IF ~files.results THEN [files EXCEPT !.query = FALSE]
    ELSE IF ~files.script THEN [files EXCEPT !.query = FALSE, !.results = FALSE]
    ELSE NoTempFiles

\* every unlinkSync returned
CleanedUp(files) == files.query /\ files.results /\ files.script

\* the continuation of getChunksByEmbeddingIds: map the results, clean up,
\* resolve.  An unlinkSync that throws in .then runs the .catch callback,
\* whose first unlinkSync throws again: the promise of searchChunks is then
\* neither resolved nor rejected
ConcSearchCleanUp(r) ==
    /\ requests[r].kind = "search"
    /\ requests[r].pc = "mapped"
    /\ tempFiles' = Unlinked(tempFiles)
    /\ requests' = IF CleanedUp(tempFiles)
                   THEN [requests EXCEPT ![r].pc = "return", ![r].verdict = "success"]
                   ELSE [requests EXCEPT ![r].pc = "pending"]
    /\ UNCHANGED <<env, mainVars, storeVars, indexVars, scan, ui, lastSearch, hist, api>>

\* the 'search' handler returns and handleSearch continues after its await
ConcSearchReturn(r) ==
    /\ requests[r].kind = "search"
    /\ requests[r].pc = "return"
    /\ requests' = [requests EXCEPT ![r] = NoRequest]
    /\ ui' = [ui EXCEPT !.isSearching = FALSE,
                        !.error = IF requests[r].verdict = "success" THEN ui.error
                                  ELSE requests[r].verdict]
    /\ UNCHANGED <<env, mainVars, storeVars, indexVars, scan, lastSearch, hist,
                   tempFiles, api>>

\* the next step of the request in slot r
ConcStep(r) ==
    \/ ConcScanStart(r)
    \/ ConcScanClear(r)
    \/ ConcScanBatches(r)
    \/ ConcScanReturn(r)
    \/ ConcSearchStart(r)
    \/ ConcSearchBuild(r)
    \/ ConcSearchPython(r)
    \/ ConcSearchClose(r)
    \/ ConcSearchCleanUp(r)
    \/ ConcSearchReturn(r)

ConcNext ==
    \/ ConcSelectFolder
    \/ ConcMenuOpenFolder
    \/ ConcReIndex
    \/ ConcToggleSettings
    \/ ConcPressEnter
    \/ ConcClickSearch
    \/ \E r \in Slots : ConcScanStart(r)
    \/ \E r \in Slots : ConcScanClear(r)
    \/ \E r \in Slots : ConcScanBatches(r)
    \/ \E r \in Slots : ConcScanReturn(r)
    \/ \E r \in Slots : ConcSearchStart(r)
    \/ \E r \in Slots : ConcSearchBuild(r)
    \/ \E r \in Slots : ConcSearchPython(r)
    \/ \E r \in Slots : ConcSearchClose(r)
    \/ \E r \in Slots : ConcSearchCleanUp(r)
    \/ \E r \in Slots : ConcSearchReturn(r)

ConcInit == Init /\ env = [NODE_ENV |-> "production", isPackaged |-> TRUE]

ConcSpec == ConcInit /\ [][ConcNext]_vars

\* every handler in flight keeps running: each await settles and each
\* child process exits
ConcFairSpec == ConcSpec /\ \A r \in Slots : WF_vars(ConcStep(r))

----------------------------------------------------------------------------
(* One run of the application, its child processes and disk writes         *)
(* succeeding (Spec)                                                       *)

Next ==
    \/ UiFolderSelected
    \/ UiReIndex
    \/ ScanExtractBatch
    \/ ScanEmbedBatch
    \/ ScanFinish
    \/ UiHandleSearch

Spec == Init /\ [][Next]_vars

----------------------------------------------------------------------------
(* Properties                                                              *)

BlankQueries == {<<>>, <<" ">>}

ScanReturned == scan.pc = "idle" /\ scan.result # <<>>
ScanSucceeded == ScanReturned /\ scan.result[1].success

\* the chunk fields that the store and the in-memory list share
SameChunk(c, d) ==
    /\ c.text = d.text
    /\ c.filePath = d.filePath
    /\ c.startPos = d.startPos
    /\ c.granularity = d.granularity

\* C1 (as claimed): after an index build that stored its chunk list, for
\* every position i the lookup of handle i returns exactly the chunk whose
\* embedding is row i of the index.
C1_HandleAlignment ==
    lastBuilt # <<>> =>
        /\ Len(faissIndex) = Len(lastBuilt)
        /\ \A i \in 1..Len(lastBuilt) :
              LET got == getChunksByEmbeddingIds(Db, <<i - 1>>)
              IN  /\ faissIndex[i] = lastBuilt[i].embedding
                  /\ Len(got) = 1
                  /\ SameChunk(got[1], lastBuilt[i])

\* C2 (as claimed): whenever a scan has completed and none is running, the
\* persisted index has one row per chunk of the current chunk set and row i
\* is the embedding of chunk i.
C2_IndexRebuiltByScan ==
    ScanSucceeded =>
        /\ faissExists
        /\ Len(faissIndex) = Len(indexedChunks)
        /\ \A i \in 1..Len(indexedChunks) : faissIndex[i] = indexedChunks[i].embedding

\* the rows the latest build inserted: the last Len(lastBuilt) rows
BuiltRows ==
    SubSeq(chunksTable, Len(chunksTable) - Len(lastBuilt) + 1, Len(chunksTable))

\* C3 (as claimed): the handles written by one index build over N chunks are
\* pairwise distinct and are 0..N-1 in the order the chunks were embedded.
C3_DenseHandles ==
    lastBuilt # <<>> =>
        /\ Len(chunksTable) >= Len(lastBuilt)
        /\ \A i \in 1..Len(lastBuilt) :
              /\ BuiltRows[i].embedding_id = i - 1
              /\ BuiltRows[i].text = lastBuilt[i].text

\* the handles of a list that some stored row carries
Resolvable(embeddingIds) ==
    SelectSeq(embeddingIds, LAMBDA h : \E r \in Range(chunksTable) : r.embedding_id = h)

\* C4 (as claimed): the lookup returns one chunk per occurrence of a stored
\* handle in the input, in input order, duplicates included.
C4_OnePerOccurrence ==
    api.op = "getChunksByEmbeddingIds" =>
        /\ Len(api.result) = Len(Resolvable(api.args))
        /\ \A i \in 1..Len(api.result) :
              api.result[i].embeddingId = Resolvable(api.args)[i]

\* C4 (amended): the lookup returns every stored row whose handle occurs in
\* the input exactly once, however often the handle occurs, and orders the
\* rows by the first position of their handle in the input.
C4_OrderedByFirstOccurrence ==
    api.op = "getChunksByEmbeddingIds" =>
        LET matching == {r \in Range(chunksTable) : r.embedding_id \in Range(api.args)}
        IN  /\ Len(api.result) = Cardinality(matching)
            /\ \A r \in matching :
                  \E i \in 1..Len(api.result) :
                      /\ api.result[i].id = r.id
                      /\ api.result[i].embeddingId = r.embedding_id
                      /\ api.result[i].text = r.text
            /\ \A i, j \in 1..Len(api.result) :
                  i < j => IndexOf(api.args, api.result[i].embeddingId)
                             <= IndexOf(api.args, api.result[j].embeddingId)

\* C4 witness: a lookup whose output order is not the storage order
C4_Witness ==
    /\ api.op = "getChunksByEmbeddingIds"
    /\ Len(api.result) = 2
    /\ api.result[1].id > api.result[2].id
    /\ api.result[1].embeddingId # api.result[2].embeddingId

\* the chunks result i of a search may be: a store row with the handle the
\* index returned at position i, or the in-memory chunk at that position
ResolutionsOf(hit) ==
    {WithScore(<<c>>, hit.score) :
        c \in {d \in Range(lastSearch.dbChunks) : d.embeddingId = hit.index}}
    \cup {WithScore(At(indexedChunks, hit.index), hit.score)}

\* C5: the results of a search are in non-increasing score order, and result
\* i is the resolution of the i-th hit the index returned, with that hit's
\* score: resolving through the store or the in-memory list never reorders.
C5_ScoreOrder ==
    lastSearch.verdict = "success" =>
        LET r == lastSearch.results
            f == lastSearch.faissReturned
        IN  /\ Len(r) = Len(f)
            /\ \A i \in 1..Len(r) : r[i].score = f[i].score /\ r[i] \in ResolutionsOf(f[i])
            /\ \A i, j \in 1..Len(r) : i < j => r[i].score >= r[j].score

\* C5 witness: a search whose hits include two of equal score that the index
\* returned with the higher row first, and two of different score
C5_Witness ==
    /\ lastSearch.verdict = "success"
    /\ \E i, j \in 1..Len(lastSearch.results) :
          /\ i < j
          /\ lastSearch.results[i].score = lastSearch.results[j].score
          /\ lastSearch.faissReturned[i].index > lastSearch.faissReturned[j].index
    /\ \E i, j \in 1..Len(lastSearch.results) :
          lastSearch.results[i].score > lastSearch.results[j].score

\* a search request was handled by the step
SearchStep == lastSearch'.verdict # Null

NoSearchSideEffects ==
    /\ ~lastSearch'.embedded
    /\ ~lastSearch'.indexRead
    /\ ~lastSearch'.built
    /\ UNCHANGED <<storeVars, indexVars, mainVars, scan>>

C8_ResultsInEnabledLevels ==
    lastSearch.verdict = "success" =>
        \A i \in 1..Len(lastSearch.results) :
            "granularity" \in DOMAIN lastSearch.results[i] =>
                lastSearch.results[i].granularity \in lastSearch.levels

\* C9 (as claimed): after a scan made with a set of enabled levels, the
\* granularity tags of the chunk set are exactly the enabled levels.
C9_ScanExtractsEnabledLevels ==
    (ScanSucceeded /\ Len(indexedChunks) > 0 /\ ~scan.embedFailed) =>
        {indexedChunks[i].granularity : i \in 1..Len(indexedChunks)} = scan.levels

\* C10 (as claimed): a scan in which the embedding of some batch failed is
\* reported as failed.
C10_EmbedFailureReported ==
    (ScanReturned /\ scan.embedFailed) => ~scan.result[1].success

\* what the renderer would be told by 'check-indexed-data' in this state
CheckNow == checkIndexedData(indexedChunks, indexDataFile, windowStateFile)

\* C11 (as claimed): from the successful end of a scan with a non-empty
\* chunk set until the next scan starts, across restarts, checkIndexedData
\* reports hasData and that scan's chunk count.
C11_CompletedScanSurvivesRestart ==
    hist.completed # <<>> =>
        /\ CheckNow.hasData
        /\ CheckNow.chunksCount = hist.completed[1]

\* C12 (as claimed): from the request of a scan of folder F until the next
\* scan request, across restarts and window closes, checkIndexedData
\* reports folderPath = F.
C12_LastFolderSurvivesRestart ==
    hist.folder # Null => CheckNow.folderPath = hist.folder

\* C13: after a scan has returned success, every chunk of the in-memory
\* chunk set comes from a file that this scan enumerated, also when a scan
\* of another folder was completed before it.
C13_ReindexClears ==
    ScanSucceeded =>
        \A i \in 1..Len(indexedChunks) : indexedChunks[i].filePath \in Range(scan.files)

\* C13 witness: a scan of folder B has returned chunks while the index was
\* built from the chunks of an earlier scan of another folder
C13_Witness ==
    /\ ScanSucceeded
    /\ scan.directoryPath = "B"
    /\ Len(indexedChunks) > 0
    /\ lastBuilt # <<>>
    /\ lastBuilt[1].filePath \notin Range(scan.files)

\* a search request reached the 'search' handler and searchChunks ran
SearchRan == SearchStep /\ lastSearch'.verdict \in {"success", "failure"}
                        /\ Len(indexedChunks) > 0

\* the hit is a row of the index built from these chunks, scored for the query
HitOf(hit, query, chunks) ==
    /\ hit.index + 1 \in 1..Len(chunks)
    /\ hit.score = InnerProduct(encode(query, embeddingModel(env)),
                                chunks[hit.index + 1].embedding)

\* C15: a search issued while no index file exists first attempts a build
\* from the chunks held in memory; the index is read only after that build
\* has written it, and the hits are rows of the index so built.  No search
\* reads an index that does not exist.
C15_LazyBuildBeforeSearch ==
    [][SearchRan =>
          /\ lastSearch'.indexRead => faissExists'
          /\ ~faissExists =>
                /\ lastSearch'.buildAttempted
                /\ lastSearch'.indexRead =>
                      /\ lastSearch'.built
                      /\ faissIndex' = [i \in 1..Len(indexedChunks) |->
                                           indexedChunks[i].embedding]
                /\ \A i \in 1..Len(lastSearch'.faissReturned) :
                      HitOf(lastSearch'.faissReturned[i], lastSearch'.query,
                            indexedChunks)]_vars

\* C15 witness: a search built the index and returned several hits from it
C15_Witness ==
    /\ lastSearch.verdict = "success"
    /\ lastSearch.built
    /\ Len(lastSearch.faissReturned) >= 2

\* C16 (as claimed): a search fails on the index only after it has attempted
\* one rebuild: whenever a search that read the index returns a failure, a
\* build was attempted during that search.
C16_RebuildOnceThenFail ==
    (lastSearch.verdict = "failure" /\ lastSearch.indexRead) => lastSearch.buildAttempted

\* C17: a search leaves the in-memory chunk set and the session and chunk
\* files unchanged; it leaves the store rows and the index file unchanged
\* too when the index file exists, and writes them only in a search that
\* attempts the lazy build.
C17_SearchOnlyReads ==
    [][SearchStep =>
          /\ UNCHANGED mainVars
          /\ (faissExists \/ ~lastSearch'.buildAttempted) =>
                UNCHANGED <<storeVars, faissExists, faissIndex>>]_vars

\* C17 witness: a search succeeded on an index built by an earlier search
C17_Witness ==
    /\ lastSearch.verdict = "success"
    /\ ~lastSearch.buildAttempted
    /\ Len(lastSearch.results) > 0
    /\ Len(chunksTable) > 0

\* C18 (as claimed): every result of a successful search has the text,
\* filePath, start offset and granularity of a chunk of the indexed chunk
\* set, and its score.
C18_ResultsCarryChunks ==
    lastSearch.verdict = "success" =>
        \A i \in 1..Len(lastSearch.results) :
            /\ {"text", "filePath", "startPos", "granularity", "score"}
                   \subseteq DOMAIN lastSearch.results[i]
            /\ \E c \in Range(indexedChunks) : SameChunk(lastSearch.results[i], c)

\* the results the search of a query gives on a store, index and chunk set
ResultsOn(exists, db, index, query, chunks, run) ==
    searchChunksOn(exists, db, index, query, chunks, run).results

\* C14: when a folder has been scanned twice in a row without any failure,
\* the chunk count after the second scan is the count after the first, and
\* every query gives the same ordered results as it gave on the state the
\* first scan left.
C14_IdempotentReindex ==
    (hist.epoch = 2 /\ scan.pc = "idle") =>
        LET first == hist.snap[1]
        IN  /\ Len(indexedChunks) = Len(first.chunks)
            /\ \A query \in {q \in Queries : ~IsBlank(q)}, run \in OkRuns :
                  ResultsOn(faissExists, Db, faissIndex, query, indexedChunks, run)
                    = ResultsOn(first.exists, first.db, first.index, query,
                                first.chunks, run)

\* C14 witness: after the second scan a search returned several results
\* from an index that did not exist when the first scan ended
C14_Witness ==
    /\ hist.epoch = 2
    /\ scan.pc = "idle"
    /\ ~hist.snap[1].exists
    /\ lastSearch.verdict = "success"
    /\ Len(lastSearch.results) >= 2

\* a request that was sent has come back to the renderer
Returned(r) == requests[r].kind = "none"

\* C19 (as claimed): every search request that is sent eventually comes back
\* to the renderer with its verdict, whatever the interleaving of the requests
\* in flight, when every await settles and every child process exits.
C19_SearchEventuallyReturns ==
    \A r \in Slots : (requests[r].kind = "search") ~> Returned(r)

\* a request is sent in this step
Dispatched(kind) ==
    \E r \in Slots : requests[r].kind = "none" /\ requests'[r].kind = kind

\* C20 (as claimed): for every sequence of UI events, no search request and
\* no scan request is sent while a scan is in progress.
C20_CallerSerializes ==
    [][(Dispatched("search") \/ Dispatched("scan")) => InFlight("scan") = {}]_vars

\* the chunks extractTextChunks(filePath) gives for a readable file, embedded
EmbeddedFileChunks(filePath) ==
    generateEmbeddings(extractTextChunks(FileContent(filePath), filePath,
                                         DefaultChunkSize, DefaultGranularity), env)

\* C21: when a file of a scan cannot be read, the scan still returns success,
\* every readable file of the scan is processed, and (no embedding request
\* having failed) the chunk set holds no chunk of the unreadable file and
\* all the chunks of every other file.
C21_UnreadableFileSkipped ==
    (ScanReturned /\ scan.directoryPath \in {"A", "B"}) =>
        /\ scan.result[1].success
        /\ scan.processedFiles =
              Cardinality({i \in 1..Len(scan.files) : scan.files[i] \notin Unreadable})
        /\ ~scan.embedFailed =>
              \A i \in 1..Len(scan.files) :
                  ChunksOfFile(indexedChunks, scan.files[i]) =
                      IF scan.files[i] \in Unreadable THEN <<>>
                      ELSE EmbeddedFileChunks(scan.files[i])

\* C21 witness: a returned scan with an unreadable file, whose chunk set
\* holds chunks of a file that comes after the unreadable one
C21_Witness ==
    /\ ScanSucceeded
    /\ ~scan.embedFailed
    /\ \E i, j \in 1..Len(scan.files) :
          /\ i < j
          /\ scan.files[i] \in Unreadable
          /\ ChunksOfFile(indexedChunks, scan.files[j]) # <<>>

\* C22: when the folder of a scan cannot be enumerated (folder C does not
\* exist), the scan returns a failure verdict with the error, no file is
\* extracted or counted as progress, and no embedding is requested.
C22_EnumerationFailureAborts ==
    (ScanReturned /\ scan.directoryPath = "C") =>
        /\ ~scan.result[1].success
        /\ scan.result[1].error = "ENOENT"
        /\ scan.files = <<>>
        /\ scan.processedFiles = 0
        /\ scan.batchChunks = <<>>
        /\ ~scan.embedFailed

\* C22 witness: the failed scan came after a scan that had indexed chunks,
\* which are still held
C22_Witness ==
    /\ ScanReturned
    /\ scan.directoryPath = "C"
    /\ ~scan.result[1].success
    /\ Len(indexedChunks) > 0

\* C23: when storeChunks fails during an index build, the build still writes
\* the index, one row per given chunk, row i the embedding of chunk i.
C23_StoreErrorDoesNotAbortBuild ==
    (api.op = "createFaissIndex" /\ api.storeError) =>
        /\ faissExists
        /\ Len(faissIndex) = Len(api.args)
        /\ \A i \in 1..Len(api.args) : faissIndex[i] = api.args[i].embedding

\* C23 witness: a build whose store failed after the first file, over chunks
\* of two files
C23_Witness ==
    /\ api.op = "createFaissIndex"
    /\ api.storeError
    /\ Len(api.args) = 2
    /\ api.args[1].filePath # api.args[2].filePath
    /\ \E r \in Range(chunksTable) : r.text = api.args[1].text
    /\ ~\E r \in Range(chunksTable) : r.text = api.args[2].text

\* the rows of the document with this path, in rowid order
RowsOfPath(filePath) ==
    SelectSeq(chunksTable, LAMBDA r :
        \E d \in Range(documents) : d.id = r.document_id /\ d.path = filePath)

\* C25: after an index build has stored its chunk list C, for every document
\* with chunks in C the store holds exactly that document's chunks of C, in
\* order, and no earlier chunk of it.
C25_ChunksReplaced ==
    (api.op = "createFaissIndex" /\ ~api.storeError) =>
        \A f \in {api.args[i].filePath : i \in 1..Len(api.args)} :
            LET rows == RowsOfPath(f)
                mine == ChunksOfFile(api.args, f)
            IN  /\ Len(rows) = Len(mine)
                /\ \A i \in 1..Len(mine) :
                      /\ rows[i].text = mine[i].text
                      /\ rows[i].start_position = mine[i].startPos
                      /\ rows[i].granularity = mine[i].granularity

\* C25 witness: the second build stored chunks of a document that had rows
\* from the first build (the chunks table's ids have moved past its length)
C25_Witness ==
    /\ api.op = "createFaissIndex"
    /\ ~api.storeError
    /\ api.builds = 2
    /\ Len(documents) = 1
    /\ chunkAutoInc > Len(chunksTable)

\* C26: every step keeps the document rows there were (none is deleted, no
\* id changes), leaves at most one row per path, and a getOrCreateDocument
\* call returns the id of the one row with its path.
C26_StableDocumentIds ==
    [][/\ Len(documents') >= Len(documents)
       /\ SubSeq(documents', 1, Len(documents)) = documents
       /\ \A i, j \in 1..Len(documents') :
             documents'[i].path = documents'[j].path => i = j
       /\ \A i, j \in 1..Len(documents') :
             documents'[i].id = documents'[j].id => i = j
       /\ api'.op = "getOrCreateDocument" =>
             \E i \in 1..Len(documents') :
                 /\ documents'[i].path = api'.args
                 /\ documents'[i].id = api'.result[1]]_vars

\* C26 witness: a call for a path that already had a row, not the latest,
\* returned that row's id
C26_Witness ==
    /\ api.op = "getOrCreateDocument"
    /\ Len(documents) >= 2
    /\ api.result[1] < Len(documents)

GenerateEmbeddingsCalled == api.op = "generateEmbeddings"

\* C24 (as claimed): generateEmbeddings either fails or returns one embedding
\* per input chunk, in input order; it fails when the process exits with a
\* non-zero code and when the number of vectors it left differs from the
\* number of chunks, and never returns a chunk without an embedding.
C24_RejectsOrOnePerChunk ==
    GenerateEmbeddingsCalled =>
        LET a == api.args
            r == api.result
        IN  /\ a.code # 0 => ~r.ok
            /\ (a.embeddingsFile = <<>> \/ Len(a.embeddingsFile[1]) # Len(a.chunks)) => ~r.ok
            /\ r.ok =>
                  /\ Len(r.chunks) = Len(a.chunks)
                  /\ \A i \in 1..Len(r.chunks) :
                        /\ r.chunks[i].text = a.chunks[i].text
                        /\ r.chunks[i].embedding = <<a.embeddingsFile[1][i]>>

ExtractTextChunksCalled == api.op = "extractTextChunks"

\* the texts of the chunks, one after the other
RECURSIVE ConcatTexts(_)
ConcatTexts(chunks) ==
    IF chunks = <<>> THEN <<>> ELSE Head(chunks).text \o ConcatTexts(Tail(chunks))

\* a text without its whitespace: every separator chunkText splits at, and
\* every separator it joins with, is a run of whitespace
WithoutWhitespace(text) == SelectSeq(text, LAMBDA c : ~IsWhitespace(c))

\* C27: the paragraph-granularity chunks of a text, concatenated in emission
\* order, are the text up to whitespace: every character that is not
\* whitespace appears exactly once and in input order.
C27_ChunkCoverage ==
    (ExtractTextChunksCalled /\ api.args.granularity = "paragraph") =>
        WithoutWhitespace(ConcatTexts(api.result)) = WithoutWhitespace(api.args.content)

\* C27 witness: a text of two paragraphs that was emitted as two chunks
C27_Witness ==
    /\ ExtractTextChunksCalled
    /\ api.args.granularity = "paragraph"
    /\ api.args.content = <<"a", "\n", "\n", ".">>
    /\ Len(api.result) = 2

\* C28: with granularity 'document' the result is one chunk holding the whole
\* input at offset 0, whatever the input and the chunk size; with granularity
\* 'paragraph' or 'page' the empty input gives no chunk.
C28_DocumentAndEmpty ==
    ExtractTextChunksCalled =>
        IF api.args.granularity = "document"
        THEN /\ Len(api.result) = 1
             /\ api.result[1].text = api.args.content
             /\ api.result[1].startPos = 0
             /\ api.result[1].granularity = "document"
        ELSE api.args.content = <<>> => api.result = <<>>

\* C28 witness: a text of two paragraphs, longer than the chunk size, taken
\* as one document
C28_Witness ==
    /\ ExtractTextChunksCalled
    /\ api.args.granularity = "document"
    /\ api.args.content = <<"a", "\n", "\n", "a">>
    /\ api.args.chunkSize = 1

\* the offsets of a chunk list start at 0, rise strictly, and no chunk
\* reaches into the next one or is empty
OffsetsMonotone(chunks) ==
    /\ chunks # <<>> => chunks[1].startPos = 0
    /\ \A i \in 1..Len(chunks) : Len(chunks[i].text) > 0
    /\ \A i \in 1..(Len(chunks) - 1) :
          /\ chunks[i].startPos < chunks[i + 1].startPos
          /\ chunks[i].startPos + Len(chunks[i].text) <= chunks[i + 1].startPos

\* C29 (as claimed): for every document and every granularity the offsets of
\* its chunks start at 0 and rise strictly without overlap, and no emitted
\* chunk is empty.
C29_OffsetsMonotone ==
    ExtractTextChunksCalled => OffsetsMonotone(api.result)

\* C29 (amended): that holds for the granularities 'paragraph' and 'page';
\* with granularity 'document' the one chunk is at offset 0 and is empty
\* exactly when the document is empty.
C29_OffsetsMonotoneChunked ==
    ExtractTextChunksCalled =>
        IF api.args.granularity = "document"
        THEN /\ Len(api.result) = 1
             /\ api.result[1].startPos = 0
             /\ (api.result[1].text = <<>>) = (api.args.content = <<>>)
        ELSE OffsetsMonotone(api.result)

\* C29 witness: several chunks of a text that begins with a newline
C29_Witness ==
    /\ ExtractTextChunksCalled
    /\ api.args.granularity = "paragraph"
    /\ Len(api.result) >= 2
    /\ api.args.content[1] = "\n"

\* C30 (as claimed): the start offset of a chunk is the position in the
\* source text at which the chunk's text begins: the text read from the
\* source at that offset is the chunk's text.
C30_OffsetIsSourcePosition ==
    ExtractTextChunksCalled =>
        \A i \in 1..Len(api.result) :
            LET c == api.result[i]
            IN  /\ c.startPos + Len(c.text) <= Len(api.args.content)
                /\ SubSeq(api.args.content, c.startPos + 1, c.startPos + Len(c.text)) = c.text

GetChunksByGranularityCalled == api.op = "getChunksByGranularity"

\* the stored chunk rows whose granularity tag is one of the levels
RowsOfLevels(levels) == SelectSeq(chunksTable, LAMBDA r : r.granularity \in levels)

\* C31: getChunksByGranularity returns exactly the stored chunks whose
\* granularity tag is enabled in its argument: no returned chunk has a
\* disabled tag, every stored row with an enabled tag is returned once with
\* its own text, offset, handle and file, and nothing is returned when no
\* level is enabled.
C31_GranularityFilter ==
    GetChunksByGranularityCalled =>
        LET rows == RowsOfLevels(api.args)
        IN  /\ \A c \in Range(api.result) : c.granularity \in api.args
            /\ Len(api.result) = Len(rows)
            /\ \A i \in 1..Len(rows) :
                /\ api.result[i].id = rows[i].id
                /\ api.result[i].text = rows[i].text
                /\ api.result[i].startPos = rows[i].start_position
                /\ api.result[i].embeddingId = rows[i].embedding_id
                /\ api.result[i].granularity = rows[i].granularity
                /\ \E d \in Range(documents) :
                      d.id = rows[i].document_id /\ d.path = api.result[i].filePath
            /\ (api.args = {} => api.result = <<>>)

\* C31 witness: the store holds a chunk tagged 'document' and one tagged
\* 'paragraph', and the call with only 'paragraph' enabled returns a chunk
C31_Witness ==
    /\ GetChunksByGranularityCalled
    /\ api.args = {"paragraph"}
    /\ \E r \in Range(chunksTable) : r.granularity = "document"
    /\ api.result # <<>>

\* C32 (as claimed): for each (position, score) pair returned by the index,
\* the result is the chunk with that handle that the store query returned,
\* with the score, and otherwise the in-memory chunk at that position with
\* the score; a search whose store query failed succeeds with every result
\* taken from the in-memory chunk list.
C32_StoreThenMemoryFallback ==
    lastSearch.verdict = "success" =>
        /\ Len(lastSearch.results) = Len(lastSearch.faissReturned)
        /\ \A i \in 1..Len(lastSearch.faissReturned) :
            LET hit == lastSearch.faissReturned[i]
                res == lastSearch.results[i]
            IN  IF \E c \in Range(lastSearch.dbChunks) : c.embeddingId = hit.index
                THEN \E c \in Range(lastSearch.dbChunks) :
                        /\ c.embeddingId = hit.index
                        /\ res = WithScore(<<c>>, hit.score)
                ELSE /\ hit.index + 1 \in 1..Len(indexedChunks)
                     /\ res = WithScore(<<indexedChunks[hit.index + 1]>>, hit.score)

\* the number of files of the scan the inner loop has gone through
FilesHandled ==
    IF scan.pc = "batch" THEN scan.i
    ELSE IF scan.pc = "embed" THEN Min(scan.i + BatchSize, Len(scan.files))
    ELSE Len(scan.files)

\* the files gone through that could be read and chunked, in scan order
FilesChunked ==
    SelectSeq(SubSeq(scan.files, 1, FilesHandled), LAMBDA f : f \notin Unreadable)

RequestBatch(k) ==
    CHOOSE b \in 0..Len(scan.files) :
        scan.embedRequests[k].files =
            SubSeq(scan.files, b * BatchSize + 1,
                   Min((b + 1) * BatchSize, Len(scan.files)))

\* the chunks are in file-then-chunk order: chunks of an earlier file of the
\* batch come first, and the chunks of one file are that file's chunks in
\* the order the chunker emitted them
FileThenChunkOrder(files, chunks) ==
    /\ \A f \in Range(files) :
          ChunksOfFile(chunks, f) =
              IF f \in Unreadable THEN <<>>
              ELSE extractTextChunks(FileContent(f), f, DefaultChunkSize,
                                     DefaultGranularity)
    /\ \A i \in 1..Len(chunks) : chunks[i].filePath \in Range(files)
    /\ \A i, j \in 1..Len(chunks) :
          i < j => IndexOf(files, chunks[i].filePath) <= IndexOf(files, chunks[j].filePath)

\* the embedded chunks of the requests that succeeded, in request order
RECURSIVE EmbeddedOf(_)
EmbeddedOf(reqs) ==
    IF reqs = <<>> THEN <<>>
    ELSE EmbeddedOf(SubSeq(reqs, 1, Len(reqs) - 1))
         \o (IF reqs[Len(reqs)].ok
             THEN generateEmbeddings(reqs[Len(reqs)].chunks, env) ELSE <<>>)

\* a scan is running, or the last one returned success
ScanRanOrRuns ==
    \/ scan.pc # "idle"
    \/ scan.result # <<>> /\ scan.result[1].success

\* C34: within one scan the batches are processed one after another: each
\* embedding request holds the chunks of one batch of at most 5 consecutive
\* files in file-then-chunk order, the requests follow the scan order, a
\* request is made only when every earlier one has ended and before any
\* file of a later batch is read, and the chunk set during and after the
\* scan is the concatenation, in scan order, of the embedded chunks of the
\* requests that succeeded.
C34_SequentialBatches ==
    LET reqs == scan.embedRequests
    IN  /\ \A k \in 1..Len(reqs) :
            /\ Len(reqs[k].files) \in 1..BatchSize
            /\ \E b \in 0..Len(scan.files) :
                  reqs[k].files = SubSeq(scan.files, b * BatchSize + 1,
                                         Min((b + 1) * BatchSize, Len(scan.files)))
            /\ reqs[k].chunks # <<>>
            /\ FileThenChunkOrder(reqs[k].files, reqs[k].chunks)
            /\ k > 1 => RequestBatch(k - 1) < RequestBatch(k)
        /\ scan.pc = "embed" =>
            /\ FilesHandled = Min(scan.i + BatchSize, Len(scan.files))
            /\ FileThenChunkOrder(Slice(scan.files, scan.i, scan.i + BatchSize),
                                  scan.batchChunks)
            /\ \A k \in 1..Len(reqs) : RequestBatch(k) * BatchSize < scan.i
        /\ ScanRanOrRuns => indexedChunks = EmbeddedOf(reqs)

\* C34 witness: a scan returned after three or more embedding requests of
\* which one failed and a later one succeeded
C34_Witness ==
    /\ scan.pc = "idle"
    /\ scan.result # <<>>
    /\ scan.result[1].success
    /\ Len(scan.embedRequests) >= 3
    /\ \E j, k \in 1..Len(scan.embedRequests) :
          j < k /\ ~scan.embedRequests[j].ok /\ scan.embedRequests[k].ok
    /\ Len(indexedChunks) > BatchSize

\* the files of the chunk list handed to the latest index build
LatestBuildFiles == {lastBuilt[i].filePath : i \in 1..Len(lastBuilt)}

\* C35 (as claimed): after an index build has stored its chunks, no chunk
\* row written by an earlier build remains resolvable: every chunk that
\* getChunksByEmbeddingIds returns belongs to a document of the latest
\* build.
C35_NoStaleRowResolvable ==
    (api.op = "getChunksByEmbeddingIds" /\ api.builds >= 1) =>
        \A c \in Range(api.result) : c.filePath \in LatestBuildFiles

\* the step is a scan request that failed at directory enumeration
ScanFailedAtEnumeration ==
    /\ scan.pc = "idle"
    /\ scan'.pc = "idle"
    /\ scan'.result = <<[success |-> FALSE, error |-> "ENOENT"]>>
    /\ ~DirExists(scan'.directoryPath)
    /\ lastSearch' = NoSearch

\* C37 (as claimed): a scan that fails at directory enumeration leaves the
\* in-memory chunk set, the persisted chunk file and the recorded
\* last-indexed folder unchanged, and checkIndexedData reports the same
\* folder after the failed scan as before it.
C37_AbortedScanChangesNothing ==
    [][ScanFailedAtEnumeration =>
          /\ UNCHANGED <<indexedChunks, indexDataFile, lastIndexedFolder>>
          /\ checkIndexedData(indexedChunks', indexDataFile', windowStateFile').folderPath
                = checkIndexedData(indexedChunks, indexDataFile, windowStateFile).folderPath]_vars

\* a search request reached the 'search' handler
SearchHandled == SearchStep /\ lastSearch'.verdict \in {"success", "failure"}

\* C39: a search that reaches the handler while the in-memory chunk set is
\* empty returns the failure 'No documents indexed' without requesting an
\* embedding, reading or building the index, or touching the Metadata Store.
C39_EmptyChunkSetFailsEarly ==
    [][(SearchHandled /\ Len(indexedChunks) = 0) =>
          /\ lastSearch'.verdict = "failure"
          /\ ui'.error = "Error searching: " \o NoDocumentsError
          /\ ~lastSearch'.buildAttempted
          /\ lastSearch'.faissReturned = <<>>
          /\ lastSearch'.dbChunks = <<>>
          /\ NoSearchSideEffects]_vars

\* C39 witness: the search was refused for want of chunks although a store
\* and an index file exist from an earlier folder
C39_Witness ==
    /\ lastSearch.verdict = "failure"
    /\ ui.error = "Error searching: " \o NoDocumentsError
    /\ Len(indexedChunks) = 0
    /\ faissExists
    /\ Len(chunksTable) > 0

\* the text joins two or more paragraphs or sentences: a paragraph or a
\* sentence separator splits it into at least two pieces that are not empty
JoinsPieces(text) ==
    \E mode \in {"paragraph", "sentence"} :
        Len(SelectSeq(Split(text, mode), LAMBDA piece : piece # <<>>)) >= 2

\* C38 (as claimed): every chunk emitted by chunkText that is longer than
\* maxSize is a single sentence that cannot be split further; no emitted
\* chunk that joins two or more paragraphs or sentences exceeds maxSize.
C38_OnlyUnsplittableExceeds ==
    (ExtractTextChunksCalled /\ api.args.granularity # "document") =>
        \A i \in 1..Len(api.result) :
            Len(api.result[i].text) > api.args.chunkSize =>
                ~JoinsPieces(api.result[i].text)

\* C36 (as claimed): once every scan request has returned, the in-memory
\* chunk set and the persisted chunk file are the chunk set that one scan
\* of a requested folder produces when run alone, also when scan requests
\* overlapped: chunks of two scans are never mixed.
C36_OverlappingScansIsolated ==
    (InFlight("scan") = {} /\ indexDataFile # <<>>) =>
        \E folder \in ConcFolders :
            /\ indexedChunks = FolderChunks(folder)
            /\ indexDataFile = <<FolderChunks(folder)>>

====
